---- MODULE Spec2Model ----
(***************************************************************************)
(* The segmented media analysis pipeline of                                *)
(* src/gst_gui/utils/video_description_with_splitting.py.                  *)
(*                                                                         *)
(* A text is a sequence of symbols.  A symbol is one character ("[", "0",  *)
(* ":", "-", "*", " ", "\n", ...) or one alphabetic word ("TRANSCRIPTION", *)
(* "hello"): no pattern of the program looks inside a word, so a word is   *)
(* kept whole.  The two timestamp patterns and the three section patterns  *)
(* are matched symbol by symbol, as the regular expressions match them.    *)
(***************************************************************************)
EXTENDS Integers, Sequences, FiniteSets, TLC

(***************************************************************************)
(* Characters, integers and their decimal writing                          *)
(***************************************************************************)

Digits == <<"0", "1", "2", "3", "4", "5", "6", "7", "8", "9">>

IsDigit(c) == \E i \in 1..Len(Digits) : Digits[i] = c

DigitVal(c) == (CHOOSE i \in 1..Len(Digits) : Digits[i] = c) - 1

\* \s of the patterns
IsSpace(c) == c \in {" ", "\n", "\t"}

\* text[i], or the empty string past either end (no symbol is the empty string)
At(text, i) == IF i \in 1..Len(text) THEN text[i] ELSE ""

\* int(s) of a string of decimal digits: leading zeros are dropped
RECURSIVE ParseInt(_)
ParseInt(s) ==
    IF s = <<>> THEN 0
    ELSE 10 * ParseInt(SubSeq(s, 1, Len(s) - 1)) + DigitVal(s[Len(s)])

\* f"{n}" of a non-negative integer
RECURSIVE Str(_)
Str(n) ==
    IF n < 10 THEN <<Digits[n + 1]>>
    ELSE Append(Str(n \div 10), Digits[(n % 10) + 1])

\* f"{n:02d}"
Pad02(n) == IF n < 10 THEN <<"0">> \o Str(n) ELSE Str(n)

\* s.split(sep)
RECURSIVE Split(_, _)
Split(s, sep) ==
    IF \A i \in 1..Len(s) : s[i] # sep THEN <<s>>
    ELSE LET k == CHOOSE i \in 1..Len(s) :
                      s[i] = sep /\ \A j \in 1..(i - 1) : s[j] # sep
         IN  <<SubSeq(s, 1, k - 1)>> \o Split(SubSeq(s, k + 1, Len(s)), sep)

\* the number of digits from text[i] on
RECURSIVE DigitRun(_, _)
DigitRun(text, i) ==
    IF IsDigit(At(text, i)) THEN 1 + DigitRun(text, i + 1) ELSE 0

\* the number of \s symbols from text[i] on
RECURSIVE SpaceRun(_, _)
SpaceRun(text, i) ==
    IF IsSpace(At(text, i)) THEN 1 + SpaceRun(text, i + 1) ELSE 0

(***************************************************************************)
(* format_time and parse_time_to_seconds                                   *)
(***************************************************************************)

format_time_minutes_only(seconds) ==
    Str(seconds \div 60) \o <<":">> \o Pad02(seconds % 60)

\* H:MM:SS when hours > 0, otherwise M:SS
format_time(seconds) ==
    LET hours   == seconds \div 3600
        minutes == (seconds % 3600) \div 60
        secs    == seconds % 60
    IN  IF hours > 0
        THEN Str(hours) \o <<":">> \o Pad02(minutes) \o <<":">> \o Pad02(secs)
        ELSE Str(minutes) \o <<":">> \o Pad02(secs)

parse_time_to_seconds(time_str) ==
    LET parts == Split(time_str, ":")
    IN  IF Len(parts) = 2
        THEN ParseInt(parts[1]) * 60 + ParseInt(parts[2])
        ELSE IF Len(parts) = 3
        THEN ParseInt(parts[1]) * 3600 + ParseInt(parts[2]) * 60 + ParseInt(parts[3])
        ELSE 0

(***************************************************************************)
(* The two timestamp patterns.  A match is the index after its last symbol *)
(* (0: no match at this index).                                            *)
(***************************************************************************)

\* the index after the digits that start at text[i] (i itself: no digit there)
DigitsEnd(text, i) == i + DigitRun(text, i)

\* the closing part (?::\d+)?\] of the bracketed pattern: after the second
\* field, which ends before text[j], comes "]" or ":" digits "]"
BracketClose(text, j, k) ==
    IF At(text, j) = "]" THEN j + 1
    ELSE IF At(text, j) = ":" /\ k > j + 1 /\ At(text, k) = "]" THEN k + 1
    ELSE 0

\* :\d+ of the bracketed pattern: the first field ends before text[c], the
\* second one before text[j]
BracketFields(text, first, c, j) ==
    IF c = first \/ At(text, c) # ":" \/ j = c + 1 THEN 0
    ELSE BracketClose(text, j, DigitsEnd(text, j + 1))

\* \[(\d+:\d+(?::\d+)?)\]  at text[i]
MatchBracketed(text, i) ==
    IF At(text, i) # "[" THEN 0
    ELSE BracketFields(text, i + 1, DigitsEnd(text, i + 1),
                       DigitsEnd(text, DigitsEnd(text, i + 1) + 1))

\* \d{1,2}: at text[i]: the number of digits taken (0: no match)
HourWidth(text, i) ==
    IF IsDigit(At(text, i)) /\ IsDigit(At(text, i + 1)) /\ At(text, i + 2) = ":" THEN 2
    ELSE IF IsDigit(At(text, i)) /\ At(text, i + 1) = ":" THEN 1
    ELSE 0

\* \d{2}(?::\d{2})? at text[p]; the optional field is taken whenever it is
\* there (without it the next symbol is ":", which nothing that follows either
\* endpoint in the range pattern matches)
MinuteSecond(text, p) ==
    IF ~IsDigit(At(text, p)) \/ ~IsDigit(At(text, p + 1)) THEN 0
    ELSE IF At(text, p + 2) = ":" /\ IsDigit(At(text, p + 3)) /\ IsDigit(At(text, p + 4))
    THEN p + 5
    ELSE p + 2

\* \d{1,2}:\d{2}(?::\d{2})?  at text[i]
MatchTime(text, i) ==
    IF HourWidth(text, i) = 0 THEN 0
    ELSE MinuteSecond(text, i + HourWidth(text, i) + 1)

NoMatch == [end |-> 0]

\* the second endpoint and (\*\*)? of the range pattern
RangeEnd(text, pre, s1, e1, s2, e2) ==
    IF e2 = 0 THEN NoMatch
    ELSE [end |-> IF At(text, e2) = "*" /\ At(text, e2 + 1) = "*" THEN e2 + 2 ELSE e2,
          pre |-> pre, s1 |-> s1, e1 |-> e1, s2 |-> s2, e2 |-> e2,
          suf |-> At(text, e2) = "*" /\ At(text, e2 + 1) = "*"]

\* -\s* of the range pattern, the dash at text[dash]
RangeDash(text, pre, s1, e1, dash, s2) ==
    IF At(text, dash) # "-" THEN NoMatch
    ELSE RangeEnd(text, pre, s1, e1, s2, MatchTime(text, s2))

\* \s* after the first endpoint, which ends before text[e1]
RangeSpace(text, pre, s1, e1, dash) ==
    IF e1 = 0 THEN NoMatch
    ELSE RangeDash(text, pre, s1, e1, dash, dash + 1 + SpaceRun(text, dash + 1))

\* the first endpoint of the range pattern, at text[s1]
RangeStart(text, pre, s1, e1) ==
    RangeSpace(text, pre, s1, e1, e1 + SpaceRun(text, e1))

\* (\*\*)?(T)\s*-\s*(T)(\*\*)?  at text[i]: where each group starts and ends
MatchRange(text, i) ==
    IF At(text, i) = "*" /\ At(text, i + 1) = "*"
    THEN RangeStart(text, TRUE, i + 2, MatchTime(text, i + 2))
    ELSE RangeStart(text, FALSE, i, MatchTime(text, i))

(***************************************************************************)
(* adjust_timestamps_with_offset and fix_timestamps.  A speed multiplier   *)
(* is held as twice its value (2 is 1.0, 3 is 1.5, 4 is 2.0), so the       *)
(* float products and floor divisions of the program are exact integer     *)
(* operations here.                                                        *)
(***************************************************************************)

One == 2    \* the multiplier 1.0

\* parse_and_multiply of fix_timestamps: <<hours, minutes, seconds>>
parse_and_multiply(time_str, speed_multiplier) ==
    LET parts == Split(time_str, ":")
        base  == IF Len(parts) = 2
                 THEN ParseInt(parts[1]) * 60 + ParseInt(parts[2])
                 ELSE ParseInt(parts[1]) * 3600 + ParseInt(parts[2]) * 60
                      + ParseInt(parts[3])
        total == base * speed_multiplier          \* twice total_seconds
    IN  << total \div (3600 * One),
           (total % (3600 * One)) \div (60 * One),
           (total % (60 * One)) \div One >>

format_result_with_hours(h, m, s) ==
    Str(h) \o <<":">> \o Pad02(m) \o <<":">> \o Pad02(s)

\* format_result of fix_timestamps
format_result(h, m, s) ==
    IF h > 0
    THEN Str(h) \o <<":">> \o Pad02(m) \o <<":">> \o Pad02(s)
    ELSE Str(m) \o <<":">> \o Pad02(s)

\* add_offset_bracketed: the replacement of one bracketed match
add_offset_bracketed(time_str, offset_seconds) ==
    <<"[">> \o format_time(parse_time_to_seconds(time_str) + offset_seconds) \o <<"]">>

\* multiply_bracketed
multiply_bracketed(time_str, speed_multiplier) ==
    LET result == parse_and_multiply(time_str, speed_multiplier)
    IN  <<"[">> \o format_result(result[1], result[2], result[3]) \o <<"]">>

Stars(present) == IF present THEN <<"*", "*">> ELSE <<>>

\* add_offset_range: the replacement of one range match m of text
add_offset_range(text, m, offset_seconds) ==
    LET start_seconds == parse_time_to_seconds(SubSeq(text, m.s1, m.e1 - 1)) + offset_seconds
        end_seconds   == parse_time_to_seconds(SubSeq(text, m.s2, m.e2 - 1)) + offset_seconds
    IN  Stars(m.pre) \o format_time(start_seconds) \o <<" ", "-", " ">>
        \o format_time(end_seconds) \o Stars(m.suf)

\* multiply_range
multiply_range(text, m, speed_multiplier) ==
    LET start == parse_and_multiply(SubSeq(text, m.s1, m.e1 - 1), speed_multiplier)
        end   == parse_and_multiply(SubSeq(text, m.s2, m.e2 - 1), speed_multiplier)
    IN  Stars(m.pre) \o format_result(start[1], start[2], start[3]) \o <<" ", "-", " ">>
        \o format_result(end[1], end[2], end[3]) \o Stars(m.suf)

\* re.sub of the bracketed pattern from text[i] on: leftmost matches, one
\* after the other.  kind "offset" rewrites with add_offset_bracketed, kind
\* "speed" with multiply_bracketed.  e is MatchBracketed(text, i).
RECURSIVE SubBracketed(_, _, _, _)
SubBracketedAt(text, i, kind, arg, e) ==
    IF e = 0 THEN <<text[i]>> \o SubBracketed(text, i + 1, kind, arg)
    ELSE (IF kind = "offset"
          THEN add_offset_bracketed(SubSeq(text, i + 1, e - 2), arg)
          ELSE multiply_bracketed(SubSeq(text, i + 1, e - 2), arg))
         \o SubBracketed(text, e, kind, arg)

SubBracketed(text, i, kind, arg) ==
    IF i > Len(text) THEN <<>>
    ELSE SubBracketedAt(text, i, kind, arg, MatchBracketed(text, i))

\* re.sub of the range pattern from text[i] on.  m is MatchRange(text, i).
RECURSIVE SubRange(_, _, _, _)
SubRangeAt(text, i, kind, arg, m) ==
    IF m.end = 0 THEN <<text[i]>> \o SubRange(text, i + 1, kind, arg)
    ELSE (IF kind = "offset"
          THEN add_offset_range(text, m, arg)
          ELSE multiply_range(text, m, arg))
         \o SubRange(text, m.end, kind, arg)

SubRange(text, i, kind, arg) ==
    IF i > Len(text) THEN <<>>
    ELSE SubRangeAt(text, i, kind, arg, MatchRange(text, i))

\* text = re.sub(bracketed ...), then text = re.sub(range ...): the second
\* substitution reads the value the first one returned
adjust_timestamps_with_offset(text, offset_seconds) ==
    CHOOSE out \in { SubRange(bracketed, 1, "offset", offset_seconds) :
                        bracketed \in {SubBracketed(text, 1, "offset", offset_seconds)} } : TRUE

fix_timestamps(text, speed_multiplier) ==
    CHOOSE out \in { SubRange(bracketed, 1, "speed", speed_multiplier) :
                        bracketed \in {SubBracketed(text, 1, "speed", speed_multiplier)} } : TRUE

(***************************************************************************)
(* merge_analyses                                                          *)
(***************************************************************************)

\* re.IGNORECASE on the words of the section headings
Fold(c) ==
    CASE c = "video"         -> "VIDEO"
      [] c = "description"   -> "DESCRIPTION"
      [] c = "transcription" -> "TRANSCRIPTION"
      [] c = "additional"    -> "ADDITIONAL"
      [] c = "information"   -> "INFORMATION"
      [] OTHER               -> c

DescHeading  == <<"*", "*", "VIDEO", " ", "DESCRIPTION", "*", "*">>
TransHeading == <<"*", "*", "TRANSCRIPTION", "*", "*">>
AddHeading   == <<"*", "*", "ADDITIONAL", " ", "INFORMATION", "*", "*">>
AddPrefix    == <<"*", "*", "ADDITIONAL">>        \* \*\*ADDITIONAL
Item2        == <<"*", "*", "2", ".">>            \* \*\*2\.
Item3        == <<"*", "*", "3", ".">>            \* \*\*3\.

\* the literal pat matches at text[i], letter case ignored
LitAt(text, i, pat) == \A k \in 1..Len(pat) : Fold(At(text, i + k - 1)) = pat[k]

\* $ without re.MULTILINE: the end of the text, or just before a last newline
AtDollar(text, i) ==
    \/ i = Len(text) + 1
    \/ i = Len(text) /\ text[i] = "\n"

\* the number of symbols of [:\s]* from text[i] on
RECURSIVE ColonSpaceRun(_, _)
ColonSpaceRun(text, i) ==
    IF At(text, i) = ":" \/ IsSpace(At(text, i))
    THEN 1 + ColonSpaceRun(text, i + 1) ELSE 0

\* s.strip(): from the first to the last symbol that is not white space
Strip(s) ==
    LET Stripped(v) ==
            IF \A i \in 1..Len(v) : IsSpace(v[i]) THEN << >>
            ELSE SubSeq(v,
                        CHOOSE i \in 1..Len(v) :
                            ~IsSpace(v[i]) /\ \A j \in 1..(i - 1) : IsSpace(v[j]),
                        CHOOSE i \in 1..Len(v) :
                            ~IsSpace(v[i]) /\ \A j \in (i + 1)..Len(v) : IsSpace(v[j]))
    IN  CHOOSE stripped \in { Stripped(v) : v \in {s} } : TRUE

\* re.search(heading [:\s]* (.*?) (?= stop1 | stop2 | $), text, DOTALL | IGNORECASE):
\* found is whether the heading occurs; group is group(1).  The heading's
\* leftmost occurrence matches, since the lazy body can always run to the end.
\* stop1 = stop2 = <<>> stands for the pattern that ends with $ alone.
Search(text, heading, stop1, stop2) ==
    IF \A i \in 1..Len(text) : ~LitAt(text, i, heading)
    THEN [found |-> FALSE, group |-> <<>>]
    ELSE LET h == CHOOSE i \in 1..Len(text) :
                      LitAt(text, i, heading) /\ \A j \in 1..(i - 1) : ~LitAt(text, j, heading)
             b == h + Len(heading) + ColonSpaceRun(text, h + Len(heading))
             Stop(e) == \/ AtDollar(text, e)
                        \/ stop1 # <<>> /\ LitAt(text, e, stop1)
                        \/ stop2 # <<>> /\ LitAt(text, e, stop2)
             e == CHOOSE x \in b..(Len(text) + 1) :
                      Stop(x) /\ \A y \in b..(x - 1) : ~Stop(y)
         IN  [found |-> TRUE, group |-> SubSeq(text, b, e - 1)]

desc_match(adjusted)  == Search(adjusted, DescHeading, TransHeading, Item2)
trans_match(adjusted) == Search(adjusted, TransHeading, AddPrefix, Item3)
add_match(adjusted)   == Search(adjusted, AddHeading, <<>>, <<>>)

Rule == [k \in 1..40 |-> "="]                     \* '=' * 40

part_header_unscaled(i, offset, speed_multiplier) ==
    <<"\n">> \o Rule \o <<"\n", "PART", " ">> \o Str(i + 1) \o <<" ", "(", "from", " ">>
    \o format_time(offset) \o <<")", "\n">> \o Rule \o <<"\n">>

\* part_header of segment i (from 0).  format_time of the float
\* offset * speed_multiplier writes the fields of its integer part.
part_header(i, offset, speed_multiplier) ==
    <<"\n">> \o Rule \o <<"\n", "PART", " ">> \o Str(i + 1) \o <<" ", "(", "from", " ">>
    \o format_time((offset * speed_multiplier) \div One) \o <<")", "\n">> \o Rule \o <<"\n">>

Adjusted_speed_first(analysis, offset, speed_multiplier) ==
    LET Then(scaled) == adjust_timestamps_with_offset(scaled, offset)
    IN  CHOOSE adjusted \in
            { Then(a) : a \in {IF speed_multiplier # One
                               THEN fix_timestamps(analysis, speed_multiplier)
                               ELSE analysis} } : TRUE

\* "First adjust offset, then speed"
Adjusted(analysis, offset, speed_multiplier) ==
    LET Then(shifted) ==
            IF speed_multiplier # One THEN fix_timestamps(shifted, speed_multiplier)
            ELSE shifted
    IN  CHOOSE adjusted \in { Then(a) : a \in {adjust_timestamps_with_offset(analysis, offset)} } : TRUE

\* sep.join(parts)
RECURSIVE Join(_, _)
Join(parts, sep) ==
    IF parts = <<>> THEN <<>>
    ELSE IF Len(parts) = 1 THEN parts[1]
    ELSE parts[1] \o sep \o Join(Tail(parts), sep)

\* the concatenation of a sequence of sequences (seqs is computed once)
Flatten(seqs) == CHOOSE flat \in { Join(s, <<>>) : s \in {seqs} } : TRUE

\* what segment i (from 1) of analyses appends to merged_descriptions,
\* merged_transcriptions and merged_additional: a sequence of 0, 1 or 2 parts.
\* The adjusted text is computed once and bound as a value, as the local
\* variable adjusted of the loop body is.
DescParts(analyses, i, speed_multiplier) ==
    LET offset == analyses[i][2]
        Parts(adjusted) ==
            LET m == desc_match(adjusted)
            IN  IF m.found
                THEN << part_header(i - 1, offset, speed_multiplier) \o Strip(m.group) >>
                ELSE << >>
    IN  CHOOSE p \in { Parts(a) : a \in {Adjusted(analyses[i][1], offset, speed_multiplier)} } : TRUE

TransParts_both(analyses, i, speed_multiplier) ==
    LET offset == analyses[i][2]
        Parts(adjusted) ==
            LET m == trans_match(adjusted)
            IN  IF m.found
                THEN << part_header(i - 1, offset, speed_multiplier) \o Strip(m.group),
                        part_header(i - 1, offset, speed_multiplier) \o adjusted >>
                ELSE << part_header(i - 1, offset, speed_multiplier) \o adjusted >>
    IN  CHOOSE p \in { Parts(a) : a \in {Adjusted(analyses[i][1], offset, speed_multiplier)} } : TRUE

TransParts_no_fallback(analyses, i, speed_multiplier) ==
    LET offset == analyses[i][2]
        Parts(adjusted) ==
            LET m == trans_match(adjusted)
            IN  IF m.found
                THEN << part_header(i - 1, offset, speed_multiplier) \o Strip(m.group) >>
                ELSE << >>
    IN  CHOOSE p \in { Parts(a) : a \in {Adjusted(analyses[i][1], offset, speed_multiplier)} } : TRUE

TransParts(analyses, i, speed_multiplier) ==
    LET offset == analyses[i][2]
        Parts(adjusted) ==
            LET m == trans_match(adjusted)
            IN  IF m.found
                THEN << part_header(i - 1, offset, speed_multiplier) \o Strip(m.group) >>
                ELSE << part_header(i - 1, offset, speed_multiplier) \o adjusted >>
    IN  CHOOSE p \in { Parts(a) : a \in {Adjusted(analyses[i][1], offset, speed_multiplier)} } : TRUE

AddParts(analyses, i, speed_multiplier) ==
    LET offset == analyses[i][2]
        Parts(adjusted) ==
            LET m == add_match(adjusted)
            IN  IF m.found
                THEN << part_header(i - 1, offset, speed_multiplier) \o Strip(m.group) >>
                ELSE << >>
    IN  CHOOSE p \in { Parts(a) : a \in {Adjusted(analyses[i][1], offset, speed_multiplier)} } : TRUE

merged_descriptions(analyses, speed_multiplier) ==
    Flatten([i \in 1..Len(analyses) |-> DescParts(analyses, i, speed_multiplier)])

merged_transcriptions_reversed(analyses, speed_multiplier) ==
    Flatten([i \in 1..Len(analyses) |->
                TransParts(analyses, Len(analyses) + 1 - i, speed_multiplier)])

merged_transcriptions(analyses, speed_multiplier) ==
    Flatten([i \in 1..Len(analyses) |-> TransParts(analyses, i, speed_multiplier)])

merged_additional(analyses, speed_multiplier) ==
    Flatten([i \in 1..Len(analyses) |-> AddParts(analyses, i, speed_multiplier)])

Preface ==
    <<"*", "*",
      "Use this description for better translation and gender recognition for proper declension in translation",
      ":", "\n">>
MergedDescHeader ==
    DescHeading \o <<" ", "(merged from all parts)", ":", "\n">>
MergedTransHeader ==
    <<"\n", "\n">> \o TransHeading \o <<" ", "(merged from all parts)", ":", "\n">>
MergedAddHeader ==
    <<"\n", "\n">> \o AddHeading \o <<" ", "(merged from all parts)", ":", "\n">>

\* merge_analyses past its single-result case: the parts of every segment
\* and the document put together from them
merged_document(analyses, speed_multiplier) ==
    LET Result(descs, trans, adds) ==
            << Preface, Join(descs, <<"\n">>) >>
            \o (IF descs # <<>>
                THEN << MergedDescHeader, Join(descs, <<"\n">>) >> ELSE << >>)
            \o (IF trans # <<>>
                THEN << MergedTransHeader, Join(trans, <<"\n">>) >> ELSE << >>)
            \o (IF adds # <<>>
                THEN << MergedAddHeader, Join(adds, <<"\n">>) >> ELSE << >>)
        Output(descs, trans, adds) ==
            CHOOSE out \in { Join(result, <<"\n">>) :
                                result \in {Result(descs, trans, adds)} } : TRUE
    IN  CHOOSE out \in { Output(d, t, a) :
                            d \in {merged_descriptions(analyses, speed_multiplier)},
                            t \in {merged_transcriptions(analyses, speed_multiplier)},
                            a \in {merged_additional(analyses, speed_multiplier)} } : TRUE

merge_analyses_no_single_case(analyses, speed_multiplier) ==
    merged_document(analyses, speed_multiplier)

\* analyses: a sequence of <<analysis_text, offset_in_seconds>>
merge_analyses(analyses, speed_multiplier) ==
    IF Len(analyses) = 1
    THEN IF speed_multiplier # One
         THEN fix_timestamps(analyses[1][1], speed_multiplier)
         ELSE analyses[1][1]
    ELSE merged_document(analyses, speed_multiplier)

(***************************************************************************)
(* analyze_video and the functions it calls, as one sequential process.    *)
(* A duration, like a multiplier, is held as twice its value in seconds.   *)
(***************************************************************************)

VARIABLES
    pc,                 \* where analyze_video stands
    source_exists,      \* video_file.exists()
    duration,           \* the duration of the source video (twice, in seconds)
    preprocess,         \* the argument preprocess
    speed_multiplier,   \* the argument, then the local, speed_multiplier
    segment_duration,   \* the argument segment_duration (seconds)
    video_path,         \* the local video_path of analyze_video
    preprocessed_path,  \* the local preprocessed_path
    temp_dir,           \* the local temp_dir
    fs,                 \* the files and directories that exist
    platform,           \* preprocess_video: detect_platform()
    attempts,           \* preprocess_video: the encoder runs so far
    stderr_lines,       \* preprocess_video: stderr_lines of the last run
    extractions,        \* split_video: the extraction runs so far
    segments,           \* split_video: segments; then the local of analyze_video
    file_state,         \* analyze_single_segment: uploaded_file.state.name
    polls,              \* analyze_single_segment: client.files.get calls so far
    response,           \* analyze_single_segment: response.text
    remote_files,       \* the uploads the remote service holds
    remote_log,         \* the remote calls and pacing delays of the run so far
    analyses,           \* the local analyses of analyze_video
    outcome,            \* what analyze_video returns or raises
    cancel_requested    \* the caller's wish to stop the run: << >>, or << i >>
                        \* when it came up while segment i was being analysed

\* the transform and merge functions called on their own
VARIABLES
    t_orig,             \* the text a chain of transforms started from
    t_text,             \* the text after the transforms applied so far
    t_applied,          \* the transforms applied so far
    m_analyses,         \* the argument analyses of a call of merge_analyses
    m_speed,            \* its argument speed_multiplier
    m_result            \* what the call returned

pipeVars == << pc, source_exists, duration, preprocess, speed_multiplier,
               segment_duration, video_path, preprocessed_path, temp_dir, fs,
               platform, attempts, stderr_lines, extractions, segments,
               file_state, polls, response, remote_files, remote_log, analyses,
               outcome, cancel_requested >>
textVars == << t_orig, t_text, t_applied >>
mergeVars == << m_analyses, m_speed, m_result >>

\* two runs of analyze_video with preprocess=True at the same time
VARIABLES
    r_pc,                 \* where each run stands
    r_stem,               \* Path(video_path).stem of each run's source video
    r_preprocessed_path,  \* the local preprocessed_path of each run
    r_reads,              \* how often each run has read its preprocessed file
    tmp_files,            \* the files of tempfile.gettempdir(): the run whose
                          \* ffmpeg wrote the file, 0 when there is no file
    r_log                 \* what the runs did to files of the temporary directory

runsVars == << r_pc, r_stem, r_preprocessed_path, r_reads, tmp_files, r_log >>

\* the TranslationHandler of handlers/translation_handler.py, its main
\* (GUI) thread and the worker threads it starts
VARIABLES
    main_pc,            \* where the main thread stands in start_translation
                        \* or cancel_translation ("idle": in neither)
    is_running,         \* self.state.is_running
    is_cancelled,       \* self.state.is_cancelled
    cancel_event,       \* self.cancel_event.is_set()
    processing_thread,  \* self.processing_thread (0: None)
    threads,            \* where each worker thread stands in run_translation
    cancelling          \* the workers that were alive when cancel_translation
                        \* set the cancel event for them

handlerVars == << main_pc, is_running, is_cancelled, cancel_event,
                  processing_thread, threads, cancelling >>
otherVars == << runsVars, handlerVars >>
vars == << pipeVars, textVars, mergeVars, otherVars >>

None == "None"

\* A path is a sequence of symbols, "/" between its components; no path
\* (None) is the empty sequence.
NoPath == << >>
SourcePath == <<"videos", "/", "video", ".mkv">>
\* preprocess_video: output_path, in tempfile.gettempdir()
OutputPath == <<"tmp", "/", "preprocessed_", "video", ".mp4">>
\* split_video: the directory tempfile.mkdtemp makes
SegmentsDir == <<"tmp", "/", "video_segments_">>
\* tempfile.gettempdir()
TempDir == <<"tmp">>

\* os.path.dirname
dirname(path) ==
    IF \A k \in 1..Len(path) : path[k] # "/" THEN << >>
    ELSE LET last == CHOOSE k \in 1..Len(path) :
                         path[k] = "/" /\ \A j \in (k + 1)..Len(path) : path[j] # "/"
         IN  SubSeq(path, 1, last - 1)

\* f"{i:03d}"
Pad03(i) == IF i < 10 THEN <<"0", "0">> \o Str(i) ELSE IF i < 100 THEN <<"0">> \o Str(i) ELSE Str(i)

\* split_video: segment_path of chunk i in output_dir
segment_path(output_dir, i, path) ==
    output_dir \o <<"/", "segment_">> \o Pad03(i) \o << path[Len(path)] >>

\* bounds of the model
MaxDuration == 5        \* source durations are 0.5 .. MaxDuration seconds
MaxPolls == 2           \* at most this many status requests per upload

Durations == 1..(One * MaxDuration)      \* ffprobe reports a float: steps of 0.5 s
SegmentDurations == {2, 3}
CallerMultipliers == {One, 2 * One}
Platforms == {"mac", "windows", "linux"}
StderrCounts == {0, 1, 6}      \* how many lines a failing encoder run writes

\* what the remote service answers to an inference request
PipelineTexts ==
    { <<"[", "0", ":", "0", "1", "]", " ", "hello">>,
      <<"*", "*", "TRANSCRIPTION", "*", "*", ":", " ", "[", "0", ":", "0", "1", "]">> }

\* what a call ends with: an exception (its type, its message and, for an
\* encoding failure, the stderr lines it quotes) or a returned value
NoOutcome == [kind |-> "none", error |-> None, msg |-> None, detail |-> <<>>, result |-> <<>>]
Raised(error, msg, detail) ==
    [kind |-> "raise", error |-> error, msg |-> msg, detail |-> detail, result |-> <<>>]
Returned(result) ==
    [kind |-> "return", error |-> None, msg |-> None, detail |-> <<>>, result |-> result]

\* ffprobe: the duration of the file at path (the preprocessed copy runs at 2x)
get_video_duration(path) == IF path = OutputPath THEN duration \div 2 ELSE duration

\* preprocess_video: methods
methods(plat) ==
    IF plat = "mac"
    THEN << [method |-> "VideoToolbox (Apple GPU)", use_shell |-> FALSE],
            [method |-> "CPU (libx264)", use_shell |-> FALSE] >>
    ELSE << [method |-> "CUDA + HEVC decoder (SDR)", use_shell |-> TRUE],
            [method |-> "CUDA + yuv420p (HDR compatible)", use_shell |-> TRUE],
            [method |-> "CUDA + HDR tonemap", use_shell |-> TRUE],
            [method |-> "CPU (libx264)", use_shell |-> FALSE] >>

preprocess_step_try_all(return_code, i, n) ==
    IF i < n - 1 THEN "continue"
    ELSE IF return_code = 0 THEN "return" ELSE "raise"

\* preprocess_video: what the loop does after run i (from 0) of n ended
preprocess_step(return_code, i, n) ==
    IF return_code = 0 THEN "return"
    ELSE IF i < n - 1 THEN "continue"
    ELSE "raise"

read_stderr_kept(previous_lines, new_lines) == previous_lines \o new_lines

\* preprocess_video: stderr_lines = [] before the lines of each run are read
read_stderr(previous_lines, new_lines) == new_lines

\* preprocess_video: error_msg, the last five lines of the failed run
error_msg(lines) ==
    IF lines = <<>> THEN << <<"No error details", 0>> >>
    ELSE SubSeq(lines, IF Len(lines) > 5 THEN Len(lines) - 4 ELSE 1, Len(lines))

needs_split_strict(probed, seg) == probed >= seg * One

\* split_video: not (duration <= segment_duration)
needs_split(probed, seg) == probed > seg * One

num_segments_floor(probed, seg) == probed \div (seg * One)

\* split_video: num_segments
num_segments(probed, seg) ==
    (probed \div (seg * One)) + (IF probed % (seg * One) > 0 THEN 1 ELSE 0)

PipeInit ==
    /\ pc = "call"
    /\ source_exists \in BOOLEAN
    /\ duration \in Durations
    /\ preprocess \in BOOLEAN
    /\ speed_multiplier \in CallerMultipliers
    /\ segment_duration \in SegmentDurations
    /\ video_path = SourcePath
    /\ preprocessed_path = NoPath
    /\ temp_dir = NoPath
    /\ fs = {TempDir} \cup (IF source_exists THEN {dirname(SourcePath), SourcePath} ELSE {})
    /\ platform = None
    /\ attempts = <<>>
    /\ stderr_lines = <<>>
    /\ extractions = <<>>
    /\ segments = <<>>
    /\ file_state = None
    /\ polls = 0
    /\ response = << >>
    /\ remote_files = {}
    /\ remote_log = <<>>
    /\ analyses = <<>>
    /\ outcome = NoOutcome
    /\ cancel_requested = << >>

Raise_skip_finally(error, msg, detail) ==
    /\ outcome' = Raised(error, msg, detail)
    /\ pc' = "done"

Raise_next_segment(error, msg, detail) ==
    /\ pc' = "pace"
    /\ UNCHANGED outcome

Raise_partial_result(error, msg, detail) ==
    /\ outcome' = Returned([analysis |-> merge_analyses(analyses, speed_multiplier),
                            segments |-> Len(segments),
                            preprocessed |-> preprocess])
    /\ pc' = "cleanup_segments"

\* an exception leaves the try block: the finally block runs next
Raise(error, msg, detail) ==
    /\ outcome' = Raised(error, msg, detail)
    /\ pc' = "cleanup_segments"

\* analyze_video, up to the try block
EnterAnalyzeVideo ==
    /\ UNCHANGED << textVars, mergeVars, otherVars, cancel_requested >>
    /\ pc = "call"
    /\ IF ~source_exists
       THEN /\ outcome' = Raised("FileNotFoundError", "Video file does not exist", <<>>)
            /\ pc' = "done"
       ELSE /\ pc' = IF preprocess THEN "pre_probe" ELSE "split_probe"
            /\ UNCHANGED outcome
    /\ UNCHANGED << source_exists, duration, preprocess, speed_multiplier,
                    segment_duration, video_path, preprocessed_path, temp_dir, fs,
                    platform, attempts, stderr_lines, extractions, segments,
                    file_state, polls, response, remote_files, remote_log, analyses >>

\* preprocess_video: get_video_duration and detect_platform
PreprocessProbe ==
    /\ UNCHANGED << textVars, mergeVars, otherVars, cancel_requested >>
    /\ pc = "pre_probe"
    /\ \/ \E plat \in Platforms :
             /\ platform' = plat
             /\ pc' = "pre_attempt"
             /\ UNCHANGED outcome
       \/ \E why \in {"Cannot read video duration", "ffprobe is not installed"} :
             /\ Raise("RuntimeError", why, <<>>)
             /\ UNCHANGED platform
    /\ UNCHANGED << source_exists, duration, preprocess, speed_multiplier,
                    segment_duration, video_path, preprocessed_path, temp_dir, fs,
                    attempts, stderr_lines, extractions, segments,
                    file_state, polls, response, remote_files, remote_log, analyses >>

forced_multiplier_keep_caller(supplied) == supplied

\* analyze_video after preprocess_video has returned: "Force 2x because video
\* is sped up", whatever the argument was
forced_multiplier(supplied) == 2 * One

\* preprocess_video: one pass of the loop over methods, and what
\* analyze_video does with the path returned
PreprocessAttempt ==
    /\ UNCHANGED << textVars, mergeVars, otherVars, cancel_requested >>
    /\ pc = "pre_attempt"
    /\ LET i == Len(attempts)
           n == Len(methods(platform))
           m == methods(platform)[i + 1]
       IN  \/ \* subprocess.Popen cannot start ffmpeg (no shell in between)
              /\ ~m.use_shell
              /\ Raise("FileNotFoundError", "ffmpeg", <<>>)
              /\ UNCHANGED << attempts, stderr_lines, fs, preprocessed_path,
                              video_path, speed_multiplier >>
           \/ \E return_code \in {0, 1}, count \in StderrCounts :
                LET lines == read_stderr(stderr_lines,
                                         [j \in 1..count |-> << m.method, j >>])
                    step  == preprocess_step(return_code, i, n)
                IN  /\ attempts' = Append(attempts,
                                     [cand |-> i + 1, method |-> m.method,
                                      return_code |-> return_code])
                    /\ fs' = IF return_code = 0 THEN fs \cup {OutputPath} ELSE fs
                    /\ return_code = 0 => count = 0
                    /\ CASE step = "return" ->
                              /\ preprocessed_path' = OutputPath
                              /\ video_path' = OutputPath
                              /\ speed_multiplier' = forced_multiplier(speed_multiplier)
                              /\ stderr_lines' = <<>>
                              /\ pc' = "split_probe"
                              /\ UNCHANGED outcome
                         [] step = "continue" ->
                              /\ stderr_lines' = lines
                              /\ pc' = "pre_attempt"
                              /\ UNCHANGED << preprocessed_path, video_path,
                                              speed_multiplier, outcome >>
                         [] OTHER ->
                              /\ stderr_lines' = lines
                              /\ Raise("RuntimeError", "All encoding methods failed",
                                       error_msg(lines))
                              /\ UNCHANGED << preprocessed_path, video_path,
                                              speed_multiplier >>
    /\ UNCHANGED << source_exists, duration, preprocess, segment_duration, temp_dir,
                    platform, extractions, segments,
                    file_state, polls, response, remote_files, remote_log, analyses >>

temp_dir_of_unguarded(segs, path, current) == dirname(segs[1][1])

\* analyze_video, after split_video has returned segs for path: temp_dir is
\* set only for more than one segment, and to None when the first segment is
\* the video itself
temp_dir_of(segs, path, current) ==
    IF Len(segs) > 1
    THEN (IF segs[1][1] # path THEN dirname(segs[1][1]) ELSE NoPath)
    ELSE current

\* split_video: get_video_duration, the single segment or tempfile.mkdtemp;
\* for the single segment split_video returns and analyze_video goes on
SplitProbe ==
    /\ UNCHANGED << textVars, mergeVars, otherVars, cancel_requested >>
    /\ pc = "split_probe"
    /\ attempts' = <<>>
    /\ \/ LET probed == get_video_duration(video_path)
          IN  IF needs_split(probed, segment_duration)
              THEN /\ fs' = fs \cup {SegmentsDir}
                   /\ pc' = "split_copy"
                   /\ UNCHANGED << segments, outcome, temp_dir >>
              ELSE /\ segments' = << << video_path, 0 >> >>
                   /\ temp_dir' = temp_dir_of(segments', video_path, temp_dir)
                   /\ pc' = "upload"
                   /\ UNCHANGED << fs, outcome >>
       \/ \E why \in {"Cannot read video duration", "ffprobe is not installed"} :
             /\ Raise("RuntimeError", why, <<>>)
             /\ UNCHANGED << fs, segments, temp_dir >>
    /\ UNCHANGED << source_exists, duration, preprocess, speed_multiplier,
                    segment_duration, video_path, preprocessed_path,
                    platform, stderr_lines, extractions,
                    file_state, polls, response, remote_files, remote_log, analyses >>

AfterChunk_sticky_reencode(segs) ==
    IF Len(segs) = num_segments(get_video_duration(video_path), segment_duration)
    THEN /\ pc' = "upload"
         /\ temp_dir' = temp_dir_of(segs, video_path, temp_dir)
    ELSE /\ pc' = IF extractions'[Len(extractions')].how = "encode"
                  THEN "split_reencode" ELSE "split_copy"
         /\ UNCHANGED temp_dir

\* split_video returns after its last chunk, and analyze_video sets temp_dir
\* (os.path.dirname of the first segment's path, when that is not video_path)
AfterChunk(segs) ==
    IF Len(segs) = num_segments(get_video_duration(video_path), segment_duration)
    THEN /\ pc' = "upload"
         /\ temp_dir' = temp_dir_of(segs, video_path, temp_dir)
    ELSE /\ pc' = "split_copy"
         /\ UNCHANGED temp_dir

\* split_video: the stream copy of chunk i (from 0)
SplitCopy ==
    /\ UNCHANGED << textVars, mergeVars, otherVars, cancel_requested >>
    /\ pc = "split_copy"
    /\ LET i == Len(segments)
           start_time == i * segment_duration
       IN  \/ /\ extractions' = Append(extractions, [chunk |-> i, how |-> "copy", ok |-> TRUE])
              /\ fs' = fs \cup {segment_path(SegmentsDir, i, video_path)}
              /\ segments' = Append(segments, << segment_path(SegmentsDir, i, video_path), start_time >>)
              /\ AfterChunk(segments')
           \/ /\ extractions' = Append(extractions, [chunk |-> i, how |-> "copy", ok |-> FALSE])
              /\ pc' = "split_reencode"
              /\ UNCHANGED << fs, segments, temp_dir >>
    /\ UNCHANGED << source_exists, duration, preprocess, speed_multiplier,
                    segment_duration, video_path, preprocessed_path,
                    platform, attempts, stderr_lines,
                    file_state, polls, response, remote_files, remote_log, analyses, outcome >>

ReencodeFailed_partial_list ==
    /\ pc' = "upload"
    /\ UNCHANGED << outcome, temp_dir >>

\* split_video: subprocess.run(cmd, check=True) of the re-encoding raises,
\* out of the except clause and out of split_video
ReencodeFailed ==
    /\ Raise("CalledProcessError", "ffmpeg", <<>>)
    /\ UNCHANGED temp_dir

\* split_video: the re-encoding of chunk i after its stream copy failed
SplitReencode ==
    /\ UNCHANGED << textVars, mergeVars, otherVars, cancel_requested >>
    /\ pc = "split_reencode"
    /\ LET i == Len(segments)
           start_time == i * segment_duration
       IN  \/ /\ extractions' = Append(extractions, [chunk |-> i, how |-> "encode", ok |-> TRUE])
              /\ fs' = fs \cup {segment_path(SegmentsDir, i, video_path)}
              /\ segments' = Append(segments, << segment_path(SegmentsDir, i, video_path), start_time >>)
              /\ AfterChunk(segments')
              /\ UNCHANGED outcome
           \/ /\ extractions' = Append(extractions, [chunk |-> i, how |-> "encode", ok |-> FALSE])
              /\ ReencodeFailed
              /\ UNCHANGED << fs, segments >>
    /\ UNCHANGED << source_exists, duration, preprocess, speed_multiplier,
                    segment_duration, video_path, preprocessed_path,
                    platform, attempts, stderr_lines,
                    file_state, polls, response, remote_files, remote_log, analyses >>

FileStates == {"STATE_UNSPECIFIED", "PROCESSING", "ACTIVE", "FAILED"}

AfterState_ignore_failed(state) ==
    /\ file_state' = state
    /\ pc' = IF state = "PROCESSING" THEN "poll" ELSE "generate"
    /\ UNCHANGED outcome

\* analyze_single_segment: after a status was read, the loop goes on while it
\* is PROCESSING, FAILED raises, anything else goes to the inference request
AfterState(state) ==
    /\ file_state' = state
    /\ IF state = "PROCESSING"
       THEN pc' = "poll" /\ UNCHANGED outcome
       ELSE IF state = "FAILED"
       THEN Raise("RuntimeError", "File processing failed", <<>>)
       ELSE pc' = "generate" /\ UNCHANGED outcome

Logged(call, seg, ok) == Append(remote_log, [call |-> call, seg |-> seg, ok |-> ok])

\* analyze_single_segment of segment i (from 0): client.files.upload
Upload ==
    /\ UNCHANGED << textVars, mergeVars, otherVars, cancel_requested >>
    /\ pc = "upload"
    /\ extractions' = << >>
    /\ polls' = 0
    /\ LET i == Len(analyses)
       IN  \/ \E state \in FileStates :
                /\ remote_files' = remote_files \cup {i}
                /\ remote_log' = Logged("upload", i, TRUE)
                /\ AfterState(state)
           \/ /\ remote_log' = Logged("upload", i, FALSE)
              /\ Raise("APIError", "upload", <<>>)
              /\ UNCHANGED << remote_files, file_state >>
    /\ UNCHANGED << source_exists, duration, preprocess, speed_multiplier,
                    segment_duration, video_path, preprocessed_path, temp_dir, fs,
                    platform, attempts, stderr_lines, segments, response, analyses >>

\* analyze_single_segment: time.sleep(2) and client.files.get
Poll ==
    /\ UNCHANGED << textVars, mergeVars, otherVars, cancel_requested >>
    /\ pc = "poll"
    /\ LET i == Len(analyses)
       IN  \/ \E state \in FileStates :
                /\ state = "PROCESSING" => polls + 1 < MaxPolls
                /\ polls' = polls + 1
                /\ remote_log' = Logged("get", i, TRUE)
                /\ AfterState(state)
           \/ /\ polls' = polls + 1
              /\ remote_log' = Logged("get", i, FALSE)
              /\ Raise("APIError", "get", <<>>)
              /\ UNCHANGED file_state
    /\ UNCHANGED << source_exists, duration, preprocess, speed_multiplier,
                    segment_duration, video_path, preprocessed_path, temp_dir, fs,
                    platform, attempts, stderr_lines, extractions, segments,
                    response, remote_files, analyses >>

\* analyze_single_segment: client.models.generate_content
Generate ==
    /\ UNCHANGED << textVars, mergeVars, otherVars, cancel_requested >>
    /\ pc = "generate"
    /\ LET i == Len(analyses)
       IN  \/ \E text \in PipelineTexts :
                /\ response' = text
                /\ remote_log' = Logged("generate", i, TRUE)
                /\ pc' = "delete"
                /\ UNCHANGED outcome
           \/ /\ remote_log' = Logged("generate", i, FALSE)
              /\ Raise("APIError", "generate_content", <<>>)
              /\ UNCHANGED response
    /\ UNCHANGED << source_exists, duration, preprocess, speed_multiplier,
                    segment_duration, video_path, preprocessed_path, temp_dir, fs,
                    platform, attempts, stderr_lines, extractions, segments,
                    file_state, polls, remote_files, analyses >>

after_segment_no_pace(i, n) == IF i < n - 1 THEN "upload" ELSE "merge"

\* analyze_video, after segment i (from 0) of n was analysed: "Short pause
\* between segments" unless it was the last one
after_segment(i, n) == IF i < n - 1 THEN "pace" ELSE "merge"

\* analyze_single_segment: client.files.delete and the return of response.text;
\* analyze_video appends the analysis with the segment's offset
Delete ==
    /\ UNCHANGED << textVars, mergeVars, otherVars, cancel_requested >>
    /\ pc = "delete"
    /\ LET i == Len(analyses)
       IN  \/ /\ remote_files' = remote_files \ {i}
              /\ remote_log' = Logged("delete", i, TRUE)
              /\ analyses' = Append(analyses, << response, segments[i + 1][2] >>)
              /\ pc' = after_segment(i, Len(segments))
              /\ UNCHANGED outcome
           \/ /\ remote_log' = Logged("delete", i, FALSE)
              /\ Raise("APIError", "delete", <<>>)
              /\ UNCHANGED << remote_files, analyses >>
    /\ response' = << >>
    /\ file_state' = None
    /\ UNCHANGED << source_exists, duration, preprocess, speed_multiplier,
                    segment_duration, video_path, preprocessed_path, temp_dir, fs,
                    platform, attempts, stderr_lines, extractions, segments, polls >>

\* analyze_video: time.sleep(5) between two segments
Pace ==
    /\ UNCHANGED << textVars, mergeVars, otherVars, cancel_requested >>
    /\ pc = "pace"
    /\ remote_log' = Logged("sleep", Len(analyses) - 1, TRUE)
    /\ pc' = "upload"
    /\ UNCHANGED << source_exists, duration, preprocess, speed_multiplier,
                    segment_duration, video_path, preprocessed_path, temp_dir, fs,
                    platform, attempts, stderr_lines, extractions, segments,
                    file_state, polls, response, remote_files, analyses, outcome >>

\* analyze_video: merge_analyses and the return statement
Merge ==
    /\ UNCHANGED << textVars, mergeVars, otherVars, cancel_requested >>
    /\ pc = "merge"
    /\ outcome' = Returned([analysis |-> merge_analyses(analyses, speed_multiplier),
                            segments |-> Len(segments),
                            preprocessed |-> preprocess])
    /\ pc' = "cleanup_segments"
    /\ UNCHANGED << source_exists, duration, preprocess, speed_multiplier,
                    segment_duration, video_path, preprocessed_path, temp_dir, fs,
                    platform, attempts, stderr_lines, extractions, segments,
                    file_state, polls, response, remote_files, remote_log, analyses >>

\* path is dir or lies under it
Under(dir, path) ==
    /\ Len(path) >= Len(dir)
    /\ SubSeq(path, 1, Len(dir)) = dir
    /\ Len(path) > Len(dir) => path[Len(dir) + 1] = "/"

\* the finally block: shutil.rmtree(temp_dir)
CleanupSegments ==
    /\ UNCHANGED << textVars, mergeVars, otherVars, cancel_requested >>
    /\ pc = "cleanup_segments"
    /\ IF temp_dir # NoPath /\ temp_dir \in fs
       THEN \/ /\ fs' = {path \in fs : ~Under(temp_dir, path)}
               /\ pc' = "cleanup_preprocessed"
               /\ UNCHANGED outcome
            \/ /\ outcome' = Raised("OSError", "rmtree", <<>>)
               /\ pc' = "done"
               /\ UNCHANGED fs
       ELSE /\ pc' = "cleanup_preprocessed"
            /\ UNCHANGED << fs, outcome >>
    /\ UNCHANGED << source_exists, duration, preprocess, speed_multiplier,
                    segment_duration, video_path, preprocessed_path, temp_dir,
                    platform, attempts, stderr_lines, extractions, segments,
                    file_state, polls, response, remote_files, remote_log, analyses >>

\* the finally block: os.remove(preprocessed_path); then analyze_video returns
\* or raises what is pending
CleanupPreprocessed ==
    /\ UNCHANGED << textVars, mergeVars, otherVars, cancel_requested >>
    /\ pc = "cleanup_preprocessed"
    /\ pc' = "done"
    /\ IF preprocessed_path # NoPath /\ preprocessed_path \in fs
       THEN \/ /\ fs' = fs \ {preprocessed_path}
               /\ UNCHANGED outcome
            \/ /\ outcome' = Raised("OSError", "remove", <<>>)
               /\ UNCHANGED fs
       ELSE UNCHANGED << fs, outcome >>
    /\ UNCHANGED << source_exists, duration, preprocess, speed_multiplier,
                    segment_duration, video_path, preprocessed_path, temp_dir,
                    platform, attempts, stderr_lines, extractions, segments,
                    file_state, polls, response, remote_files, remote_log, analyses >>

\* The caller, in another thread, wishes to stop the run while segment i
\* (from 0) is being analysed.  analyze_video takes no argument through which
\* the wish could reach it (video_path, api_key, segment_duration, lang,
\* preprocess, speed_multiplier) and reads no flag or event: the step changes
\* nothing that analyze_video reads.
RequestCancel ==
    /\ pc \in {"upload", "poll", "generate", "delete"}
    /\ cancel_requested = << >>
    /\ cancel_requested' = << Len(analyses) >>
    /\ UNCHANGED << textVars, mergeVars, otherVars >>
    /\ UNCHANGED << pc, source_exists, duration, preprocess, speed_multiplier,
                    segment_duration, video_path, preprocessed_path, temp_dir, fs,
                    platform, attempts, stderr_lines, extractions, segments,
                    file_state, polls, response, remote_files, remote_log,
                    analyses, outcome >>

PipeNext ==
    \/ EnterAnalyzeVideo
    \/ PreprocessProbe
    \/ PreprocessAttempt
    \/ SplitProbe
    \/ SplitCopy
    \/ SplitReencode
    \/ Upload
    \/ Poll
    \/ Generate
    \/ Delete
    \/ Pace
    \/ Merge
    \/ CleanupSegments
    \/ CleanupPreprocessed
    \/ RequestCancel

(***************************************************************************)
(* The transform functions called on their own: a chain of at most MaxOps   *)
(* calls on a sample text                                                  *)
(***************************************************************************)

Bracket130 == <<"[", "1", ":", "3", "0", "]">>
BracketPadded == <<"[", "0", "1", ":", "3", "0", "]">>
BracketZeroHour == <<"[", "0", ":", "0", "0", ":", "1", "0", "]">>
BracketSeconds75 == <<"[", "1", ":", "7", "5", "]">>
BracketMinutes75 == <<"[", "7", "5", ":", "0", "0", "]">>
BracketLate == <<"[", "5", "9", ":", "5", "9", "]">>
Bracket300 == <<"[", "3", ":", "0", "0", "]">>
BracketHours == <<"[", "1", ":", "0", "5", ":", "0", "7", "]">>
RangePlain == <<"0", ":", "1", "0", " ", "-", " ", "0", ":", "2", "0">>
RangeTight == <<"0", ":", "1", "0", "-", "0", ":", "2", "0">>
RangeBold == <<"*", "*", "1", ":", "0", "0", ":", "0", "0", " ", "-", " ", "1", ":", "3", "0", ":", "0", "0", "*", "*">>
RangeInBrackets == <<"[", "0", ":", "1", "0", " ", "-", " ", "0", ":", "2", "0", "]">>

BracketSamples == { Bracket130, BracketPadded, BracketZeroHour, BracketSeconds75,
                    BracketMinutes75, BracketLate, Bracket300, BracketHours }
RangeSamples == { RangePlain, RangeTight, RangeBold, RangeInBrackets }

\* each sample alone, words around it, and each bracketed sample before each range
SampleTexts ==
    BracketSamples \cup RangeSamples
    \cup { <<"hello", " ">> \o b \o <<" ", "hello">> : b \in BracketSamples }
    \cup { b \o <<" ">> \o r : b \in BracketSamples, r \in RangeSamples }

MaxOps == 2             \* at most this many transforms in a chain

ShiftOffsets == {0, 10, 90, 1800, 360000}
Multipliers == {One, 3, 2 * One}           \* 1.0, 1.5, 2.0

TextInit ==
    /\ t_orig \in SampleTexts
    /\ t_text = t_orig
    /\ t_applied = << >>

TextIdle ==
    /\ t_orig = << >>
    /\ t_text = << >>
    /\ t_applied = << >>

\* a call of adjust_timestamps_with_offset on the text so far
ApplyOffset ==
    /\ Len(t_applied) < MaxOps
    /\ \E offset \in ShiftOffsets :
          /\ t_text' = adjust_timestamps_with_offset(t_text, offset)
          /\ t_applied' = Append(t_applied, [kind |-> "offset", arg |-> offset])
    /\ UNCHANGED << t_orig, pipeVars, mergeVars, otherVars >>

\* a call of fix_timestamps on the text so far
ApplySpeed ==
    /\ Len(t_applied) < MaxOps
    /\ \E multiplier \in Multipliers :
          /\ t_text' = fix_timestamps(t_text, multiplier)
          /\ t_applied' = Append(t_applied, [kind |-> "speed", arg |-> multiplier])
    /\ UNCHANGED << t_orig, pipeVars, mergeVars, otherVars >>

TextNext == ApplyOffset \/ ApplySpeed

(***************************************************************************)
(* merge_analyses called on its own, on at most MaxParts results           *)
(***************************************************************************)

TextFull ==
    <<"*", "*", "VIDEO", " ", "DESCRIPTION", "*", "*", ":", " ", "hello",
      "\n", "*", "*", "TRANSCRIPTION", "*", "*", ":", "\n", "[", "0", ":",
      "1", "0", "]", " ", "hello", "\n", "*", "*", "ADDITIONAL", " ",
      "INFORMATION", "*", "*", ":", " ", "0", ":", "0", "0", " ", "-", " ",
      "0", ":", "3", "0">>
TextPlain ==
    <<"[", "0", ":", "1", "0", "]", " ", "hello">>
TextDescOnly ==
    <<"*", "*", "VIDEO", " ", "DESCRIPTION", "*", "*", " ", "hello", " ",
      "[", "0", "1", ":", "3", "0", "]">>
TextLower ==
    <<"hello", " ", "[", "0", ":", "0", "1", "]", " ", "*", "*",
      "transcription", "*", "*", ":", " ", "[", "0", ":", "0", "5", "]",
      " ", "hello">>
TextSwapped ==
    <<"*", "*", "ADDITIONAL", " ", "INFORMATION", "*", "*", " ", "0", ":",
      "1", "0", "-", "0", ":", "2", "0", " ", "*", "*", "TRANSCRIPTION",
      "*", "*", " ", "[", "1", ":", "0", "0", "]", " ", "*", "*", "VIDEO",
      " ", "DESCRIPTION", "*", "*", " ", "hello">>
TextNumbered ==
    <<"*", "*", "VIDEO", " ", "DESCRIPTION", "*", "*", ":", " ", "hello",
      "\n", "*", "*", "2", ".", " ", "TRANSCRIPTION", "*", "*", ":", " ",
      "[", "5", "9", ":", "5", "9", "]">>

MergeTexts == { TextFull, TextPlain, TextDescOnly, TextLower, TextSwapped, TextNumbered }
MergeOffsets == {0, 1800}

MaxParts == 2           \* at most this many results in a call

MergeInit ==
    /\ m_analyses = << >>
    /\ m_speed \in Multipliers
    /\ m_result = [done |-> FALSE, text |-> << >>]

MergeIdle ==
    /\ m_analyses = << >>
    /\ m_speed = One
    /\ m_result = [done |-> FALSE, text |-> << >>]

\* the caller appends one more (analysis, offset)
AddResult ==
    /\ ~m_result.done
    /\ Len(m_analyses) < MaxParts
    /\ \E text \in MergeTexts, offset \in MergeOffsets :
          m_analyses' = Append(m_analyses, << text, offset >>)
    /\ UNCHANGED << m_speed, m_result, pipeVars, textVars, otherVars >>

\* the call of merge_analyses
CallMerge ==
    /\ ~m_result.done
    /\ Len(m_analyses) >= 1
    /\ m_result' = [done |-> TRUE, text |-> merge_analyses(m_analyses, m_speed)]
    /\ UNCHANGED << m_analyses, m_speed, pipeVars, textVars, otherVars >>

MergeNext == AddResult \/ CallMerge

(***************************************************************************)
(* The specifications                                                      *)
(***************************************************************************)

(***************************************************************************)
(* Two runs of analyze_video with preprocess=True at the same time (two     *)
(* threads or two processes of one user), as far as they touch the          *)
(* temporary directory: preprocess_video writes its output file, the run    *)
(* reads it (duration probe, split, upload), the finally block removes it.  *)
(***************************************************************************)

Runs == {1, 2}
Stems == {"video", "clip"}
MaxReads == 2           \* at most this many reads of the preprocessed file per run

\* preprocess_video: os.path.join(tempfile.gettempdir(), f"preprocessed_{stem}.mp4")
output_path(stem) == <<"tmp", "/", "preprocessed_", stem, ".mp4">>

OutputPaths == { output_path(stem) : stem \in Stems }

RunsInit ==
    /\ r_pc = [r \in Runs |-> "call"]
    /\ r_stem \in [Runs -> Stems]
    /\ r_preprocessed_path = [r \in Runs |-> NoPath]
    /\ r_reads = [r \in Runs |-> 0]
    /\ tmp_files = [path \in OutputPaths |-> 0]
    /\ r_log = << >>

RunsIdle ==
    /\ r_pc = [r \in Runs |-> "idle"]
    /\ r_stem = [r \in Runs |-> "video"]
    /\ r_preprocessed_path = [r \in Runs |-> NoPath]
    /\ r_reads = [r \in Runs |-> 0]
    /\ tmp_files = [path \in OutputPaths |-> 0]
    /\ r_log = << >>

\* run r did op to path, which held the file written by run held (0: no file)
FileEvent(r, op, path, held) == [run |-> r, op |-> op, path |-> path, held |-> held]

\* preprocess_video of run r: ffmpeg -y writes output_path, and analyze_video
\* keeps the path returned; or every encoder fails and the exception goes to
\* the finally block with preprocessed_path still None
RunPreprocess(r) ==
    /\ r_pc[r] = "call"
    /\ LET path == output_path(r_stem[r])
       IN  \/ /\ r_log' = Append(r_log, FileEvent(r, "write", path, tmp_files[path]))
              /\ tmp_files' = [tmp_files EXCEPT ![path] = r]
              /\ r_preprocessed_path' = [r_preprocessed_path EXCEPT ![r] = path]
              /\ r_pc' = [r_pc EXCEPT ![r] = "analyse"]
           \/ /\ r_pc' = [r_pc EXCEPT ![r] = "cleanup"]
              /\ UNCHANGED << r_log, tmp_files, r_preprocessed_path >>
    /\ UNCHANGED << r_stem, r_reads, pipeVars, textVars, mergeVars, handlerVars >>

\* run r reads its video_path, the preprocessed file (ffprobe and ffmpeg of
\* split_video, client.files.upload); a file that is gone makes the call fail
RunRead(r) ==
    /\ r_pc[r] = "analyse"
    /\ r_reads[r] < MaxReads
    /\ LET path == r_preprocessed_path[r]
       IN  /\ r_log' = Append(r_log, FileEvent(r, "read", path, tmp_files[path]))
           /\ r_pc' = [r_pc EXCEPT ![r] = IF tmp_files[path] = 0 THEN "cleanup" ELSE "analyse"]
    /\ r_reads' = [r_reads EXCEPT ![r] = @ + 1]
    /\ UNCHANGED << r_stem, r_preprocessed_path, tmp_files, pipeVars, textVars, mergeVars,
                    handlerVars >>

\* run r has analysed its segments and merged: the finally block is next
RunReturn(r) ==
    /\ r_pc[r] = "analyse"
    /\ r_reads[r] >= 1
    /\ r_pc' = [r_pc EXCEPT ![r] = "cleanup"]
    /\ UNCHANGED << r_stem, r_preprocessed_path, r_reads, tmp_files, r_log,
                    pipeVars, textVars, mergeVars, handlerVars >>

\* the finally block of run r: os.remove(preprocessed_path) when it is set
\* and the file exists
RunCleanup(r) ==
    /\ r_pc[r] = "cleanup"
    /\ r_pc' = [r_pc EXCEPT ![r] = "done"]
    /\ LET path == r_preprocessed_path[r]
       IN  IF path # NoPath /\ tmp_files[path] # 0
           THEN /\ r_log' = Append(r_log, FileEvent(r, "delete", path, tmp_files[path]))
                /\ tmp_files' = [tmp_files EXCEPT ![path] = 0]
           ELSE UNCHANGED << r_log, tmp_files >>
    /\ UNCHANGED << r_stem, r_preprocessed_path, r_reads, pipeVars, textVars, mergeVars,
                    handlerVars >>

RunsNext ==
    \E r \in Runs : RunPreprocess(r) \/ RunRead(r) \/ RunReturn(r) \/ RunCleanup(r)

(***************************************************************************)
(* TranslationHandler: start_translation and cancel_translation, called on *)
(* the main thread one after the other, and the worker threads that        *)
(* _start_translation_async starts, each running run_translation.  The     *)
(* steps of the main thread and of the workers interleave freely.          *)
(***************************************************************************)

MaxThreads == 3         \* at most this many worker threads are started

ThreadIds == 1..MaxThreads

\* threading.Thread.is_alive(): started and not yet finished
Alive(w) == threads[w] \in {"started", "batch", "results", "finally"}

\* TranslationHandler.__init__ and TranslationState.__init__
HandlerInit ==
    /\ main_pc = "idle"
    /\ is_running = FALSE
    /\ is_cancelled = FALSE
    /\ cancel_event = FALSE
    /\ processing_thread = 0
    /\ threads = [w \in ThreadIds |-> "none"]
    /\ cancelling = {}

\* start_translation: the guard "if self.state.is_running: return False".
\* What follows (validation, the confirmation dialog) takes time on the main
\* thread, during which the workers go on.
StartGuard ==
    /\ main_pc = "idle"
    /\ ~is_running
    /\ \E w \in ThreadIds : threads[w] = "none"
    /\ main_pc' = "confirm"
    /\ UNCHANGED << is_running, is_cancelled, cancel_event, processing_thread,
                    threads, cancelling >>
    /\ UNCHANGED << pipeVars, textVars, mergeVars, runsVars >>

\* start_translation: validation fails or the user declines (return False),
\* or _start_translation_async: self.cancel_event.clear(), then the thread is
\* created and started
StartAsync ==
    /\ main_pc = "confirm"
    /\ main_pc' = "idle"
    /\ \/ UNCHANGED << cancel_event, processing_thread, threads >>
       \/ LET w == CHOOSE t \in ThreadIds :
                       threads[t] = "none" /\ \A u \in 1..(t - 1) : threads[u] # "none"
          IN  /\ cancel_event' = FALSE
              /\ processing_thread' = w
              /\ threads' = [threads EXCEPT ![w] = "started"]
    /\ UNCHANGED << is_running, is_cancelled, cancelling >>
    /\ UNCHANGED << pipeVars, textVars, mergeVars, runsVars >>

\* cancel_translation up to the join: the guard "if not self.state.is_running:
\* return", then self.cancel_event.set()
CancelSet ==
    /\ main_pc = "idle"
    /\ is_running
    /\ cancel_event' = TRUE
    /\ cancelling' = cancelling \cup { w \in ThreadIds : Alive(w) }
    /\ main_pc' = "join"
    /\ UNCHANGED << is_running, is_cancelled, processing_thread, threads >>
    /\ UNCHANGED << pipeVars, textVars, mergeVars, runsVars >>

\* cancel_translation from the join on: processing_thread.join(timeout=5.0)
\* returns, because the thread has finished or because five seconds have
\* passed (then "Force terminating process..." is logged and nothing is
\* terminated); then self.state.cancel()
CancelJoined ==
    /\ main_pc = "join"
    /\ is_cancelled' = TRUE
    /\ is_running' = FALSE
    /\ main_pc' = "idle"
    /\ UNCHANGED << cancel_event, processing_thread, threads, cancelling >>
    /\ UNCHANGED << pipeVars, textVars, mergeVars, runsVars >>

\* run_translation: self.state.start(len(valid_pairs)), which resets the
\* state and sets is_running
WorkerStateStart(w) ==
    /\ threads[w] = "started"
    /\ is_running' = TRUE
    /\ is_cancelled' = FALSE
    /\ threads' = [threads EXCEPT ![w] = "batch"]
    /\ UNCHANGED << main_pc, cancel_event, processing_thread, cancelling >>
    /\ UNCHANGED << pipeVars, textVars, mergeVars, runsVars >>

\* run_translation: self.cli_runner.run_translation_batch returns (its value
\* success decides between two branches that both call self.state.finish()),
\* or it raises and the except clause calls self.state.finish()
WorkerBatch(w) ==
    /\ threads[w] = "batch"
    /\ \/ /\ threads' = [threads EXCEPT ![w] = "results"]
          /\ UNCHANGED is_running
       \/ /\ threads' = [threads EXCEPT ![w] = "finally"]
          /\ is_running' = FALSE
    /\ UNCHANGED << main_pc, is_cancelled, cancel_event, processing_thread, cancelling >>
    /\ UNCHANGED << pipeVars, textVars, mergeVars, runsVars >>

\* run_translation, "Handle results": self.state.cancel() when the cancel
\* event is set, self.state.finish() otherwise
WorkerResults(w) ==
    /\ threads[w] = "results"
    /\ is_running' = FALSE
    /\ is_cancelled' = (IF cancel_event THEN TRUE ELSE is_cancelled)
    /\ threads' = [threads EXCEPT ![w] = "finally"]
    /\ UNCHANGED << main_pc, cancel_event, processing_thread, cancelling >>
    /\ UNCHANGED << pipeVars, textVars, mergeVars, runsVars >>

\* run_translation, the finally clause: self.cancel_event.clear(); the
\* thread ends
WorkerFinally(w) ==
    /\ threads[w] = "finally"
    /\ cancel_event' = FALSE
    /\ threads' = [threads EXCEPT ![w] = "finished"]
    /\ UNCHANGED << main_pc, is_running, is_cancelled, processing_thread, cancelling >>
    /\ UNCHANGED << pipeVars, textVars, mergeVars, runsVars >>

HandlerNext ==
    \/ StartGuard
    \/ StartAsync
    \/ CancelSet
    \/ CancelJoined
    \/ \E w \in ThreadIds : WorkerStateStart(w)
    \/ \E w \in ThreadIds : WorkerBatch(w)
    \/ \E w \in ThreadIds : WorkerResults(w)
    \/ \E w \in ThreadIds : WorkerFinally(w)

PipeIdle ==
    /\ pc = "idle"
    /\ source_exists = FALSE
    /\ duration = 0
    /\ preprocess = FALSE
    /\ speed_multiplier = One
    /\ segment_duration = 0
    /\ video_path = NoPath
    /\ preprocessed_path = NoPath
    /\ temp_dir = NoPath
    /\ fs = {}
    /\ platform = None
    /\ attempts = << >>
    /\ stderr_lines = << >>
    /\ extractions = << >>
    /\ segments = << >>
    /\ file_state = None
    /\ polls = 0
    /\ response = << >>
    /\ remote_files = {}
    /\ remote_log = << >>
    /\ analyses = << >>
    /\ outcome = NoOutcome
    /\ cancel_requested = << >>

\* one run of analyze_video
Init == PipeInit /\ TextIdle /\ MergeIdle /\ RunsIdle /\ HandlerInit
Next == PipeNext
Spec == Init /\ [][Next]_vars

\* chains of adjust_timestamps_with_offset and fix_timestamps
InitText == PipeIdle /\ TextInit /\ MergeIdle /\ RunsIdle /\ HandlerInit
SpecText == InitText /\ [][TextNext]_vars

\* calls of merge_analyses
InitMerge == PipeIdle /\ TextIdle /\ MergeInit /\ RunsIdle /\ HandlerInit
SpecMerge == InitMerge /\ [][MergeNext]_vars

\* The steps analyze_video takes before and after the merge.  Each is a
\* statement of one thread whose calls (ffprobe, ffmpeg, the requests to the
\* remote service, time.sleep) return, so a run that can take its next step
\* does take it; the caller's wish to cancel is not a step of the run and may
\* never come.
PipeStep ==
    \/ EnterAnalyzeVideo
    \/ PreprocessProbe
    \/ PreprocessAttempt
    \/ SplitProbe
    \/ SplitCopy
    \/ SplitReencode
    \/ Upload
    \/ Poll
    \/ Generate
    \/ Delete
    \/ Pace
    \/ CleanupSegments
    \/ CleanupPreprocessed

\* The step Merge, named by the positions it connects: merge_analyses is a
\* computation on strings without a loop that waits, so the step is taken
\* whatever text it computes.
MergeTaken == pc = "merge" /\ pc' = "cleanup_segments"

\* one run of analyze_video whose calls all return
SpecFair == Init /\ [][Next]_vars /\ WF_vars(PipeStep) /\ WF_pc(MergeTaken)

\* two runs of analyze_video with preprocessing at the same time
InitRuns == PipeIdle /\ TextIdle /\ MergeIdle /\ RunsInit /\ HandlerInit
SpecRuns == InitRuns /\ [][RunsNext]_vars

\* a TranslationHandler, its main thread and its workers
InitHandler == PipeIdle /\ TextIdle /\ MergeIdle /\ RunsIdle /\ HandlerInit
SpecHandler == InitHandler /\ [][HandlerNext]_vars

(***************************************************************************)
(* Properties of split_video (specification Spec)                          *)
(***************************************************************************)

\* where analyze_video stands once split_video has returned
AnalysisPcs == {"upload", "poll", "generate", "delete", "pace", "merge"}

\* the duration split_video probes, and the segment length, both doubled
ProbedDuration == get_video_duration(video_path)
SegmentLength == segment_duration * One

\* C1: when the probed duration is at most the segment length, split_video
\* returns the one segment (video_path, 0), and no temporary directory is made
\* and no extraction is run at any time.
C1_SingleSegment ==
    ProbedDuration <= SegmentLength =>
        /\ SegmentsDir \notin fs
        /\ extractions = << >>
        /\ segments \in { << >>, << << video_path, 0 >> >> }
        /\ pc \in AnalysisPcs => segments = << << video_path, 0 >> >>

\* the boundary case d = maxSegmentSeconds, after the one segment was analysed
C1_Witness ==
    /\ pc = "merge"
    /\ ProbedDuration = SegmentLength
    /\ segments = << << video_path, 0 >> >>
    /\ Len(analyses) = 1

\* C2: when the probed duration d exceeds the segment length, split_video
\* returns ceil(d / segment_duration) segments, segment i (from 0) is the file
\* segment_i of the temporary directory with start offset i * segment_duration,
\* and the intervals [i*max, min((i+1)*max, d)) cover [0, d): the last one
\* starts before d and the one after it would start at or after d.
C2_SegmentCount ==
    (pc \in AnalysisPcs /\ ProbedDuration > SegmentLength) =>
        /\ (Len(segments) - 1) * SegmentLength < ProbedDuration
        /\ ProbedDuration <= Len(segments) * SegmentLength
        /\ \A i \in 1..Len(segments) :
              /\ segments[i][2] = (i - 1) * segment_duration
              /\ segments[i][1] = segment_path(SegmentsDir, i - 1, video_path)
              /\ segments[i][1] \in fs

\* three segments, the last one shorter than the others
C2_Witness ==
    /\ pc = "merge"
    /\ Len(segments) = 3
    /\ ProbedDuration % SegmentLength # 0
    /\ segments[3][2] = 2 * segment_duration

(***************************************************************************)
(* Properties of merge_analyses (specification SpecMerge)                  *)
(***************************************************************************)

\* the strings inside the matches of the bracketed pattern in txt
BracketedStamps(txt) ==
    { SubSeq(txt, i + 1, MatchBracketed(txt, i) - 2) :
        i \in { j \in 1..Len(txt) : MatchBracketed(txt, j) # 0 } }

\* the formatting of (t + o) * multiplier, in whole seconds
ShiftedThenScaled(stamp, off, mult) ==
    format_time(((parse_time_to_seconds(stamp) + off) * mult) \div One)

HasTranscriptionHeading(txt) == \E i \in 1..Len(txt) : LitAt(txt, i, TransHeading)

\* C3: in a merge of two or more results every bracketed timestamp of the
\* merged document is the formatting of (t + o) * multiplier for a bracketed
\* timestamp t of a result with offset o (shift first, rescale second), and
\* every bracketed timestamp of a result that is taken over whole (it has no
\* transcription heading) is in the document in that form.
C3_OffsetThenRescale ==
    (m_result.done /\ Len(m_analyses) >= 2) =>
        /\ \A s \in BracketedStamps(m_result.text) :
              \E k \in 1..Len(m_analyses) :
                 \E t \in BracketedStamps(m_analyses[k][1]) :
                    s = ShiftedThenScaled(t, m_analyses[k][2], m_speed)
        /\ \A k \in 1..Len(m_analyses) :
              ~HasTranscriptionHeading(m_analyses[k][1]) =>
                 \A t \in BracketedStamps(m_analyses[k][1]) :
                    ShiftedThenScaled(t, m_analyses[k][2], m_speed)
                        \in BracketedStamps(m_result.text)

\* offsets 0 and 1800, multiplier 2.0: [0:10] of the second result reads [1:00:20]
C3_Witness ==
    /\ m_result.done
    /\ Len(m_analyses) = 2
    /\ m_speed = 2 * One
    /\ m_analyses[1][2] = 0
    /\ m_analyses[2] = << TextPlain, 1800 >>
    /\ <<"1", ":", "0", "0", ":", "2", "0">> \in BracketedStamps(m_result.text)
    /\ <<"3", "0", ":", "2", "0">> \notin BracketedStamps(m_result.text)

(***************************************************************************)
(* Properties of analyze_video and preprocess_video (specification Spec)   *)
(***************************************************************************)

\* C4: once analyze_video has returned or raised (and no removal of the
\* finally block itself failed), neither the preprocessed file nor the
\* temporary segment directory exists.
C4_CleanupAlways ==
    (pc = "done" /\ outcome.error # "OSError") =>
        /\ OutputPath \notin fs
        /\ \A path \in fs : ~Under(SegmentsDir, path)

\* C5: the candidates are run in list order, every run but the last one made
\* so far exited non-zero, and a run that exits with zero ends the chain:
\* preprocess_video returns the output path and no further candidate is run.
C5_FallbackOrder ==
    /\ \A k \in 1..Len(attempts) :
          /\ attempts[k].cand = k
          /\ k <= Len(methods(platform))
          /\ attempts[k].method = methods(platform)[k].method
          /\ k < Len(attempts) => attempts[k].return_code # 0
    /\ (Len(attempts) > 0 /\ attempts[Len(attempts)].return_code = 0) =>
          /\ pc = "split_probe"
          /\ preprocessed_path = OutputPath
          /\ video_path = OutputPath
          /\ OutputPath \in fs
          /\ outcome = NoOutcome

\* candidates 1 and 2 failed, candidate 3 succeeded, candidate 4 was not run
C5_Witness ==
    /\ pc = "split_probe"
    /\ Len(methods(platform)) = 4
    /\ Len(attempts) = 3
    /\ attempts[1].return_code # 0
    /\ attempts[2].return_code # 0
    /\ attempts[3].return_code = 0
    /\ preprocessed_path = OutputPath

\* every candidate of the chain was run and exited non-zero
AllFailed ==
    /\ platform # None
    /\ Len(attempts) = Len(methods(platform))
    /\ \A k \in 1..Len(attempts) : attempts[k].return_code # 0

\* the last five of the count lines that the run of method wrote
LastLines(method, count) ==
    IF count = 0 THEN << <<"No error details", 0>> >>
    ELSE IF count <= 5 THEN [j \in 1..count |-> << method, j >>]
    ELSE [j \in 1..5 |-> << method, count - 5 + j >>]

\* C6: when every candidate exited non-zero, preprocess_video raises the
\* RuntimeError "All encoding methods failed" with the last lines of what the
\* last candidate wrote (or "No error details" when it wrote nothing), and
\* analyze_video holds no preprocessed path.
C6_ExhaustedChain ==
    AllFailed =>
        /\ outcome.kind = "raise"
        /\ outcome.error = "RuntimeError"
        /\ outcome.msg = "All encoding methods failed"
        /\ \E count \in StderrCounts :
              outcome.detail = LastLines(attempts[Len(attempts)].method, count)
        /\ preprocessed_path = NoPath
        /\ video_path = SourcePath
        /\ OutputPath \notin fs

\* four candidates failed, the last one with more than five lines
C6_Witness ==
    /\ AllFailed
    /\ pc = "done"
    /\ Len(attempts) = 4
    /\ Len(outcome.detail) = 5
    /\ outcome.detail[5] = << "CPU (libx264)", 6 >>

(***************************************************************************)
(* Properties of merge_analyses, continued (specification SpecMerge)       *)
(***************************************************************************)

\* C7: one result and multiplier 1.0: merge_analyses returns the text of the
\* result as it is, whatever its offset and its timestamps.
C7_SinglePassThrough ==
    (m_result.done /\ Len(m_analyses) = 1 /\ m_speed = One) =>
        m_result.text = m_analyses[1][1]

\* a result with offset 1800 whose timestamp fix_timestamps would rewrite
C7_Witness ==
    /\ m_result.done
    /\ m_speed = One
    /\ m_analyses = << << TextDescOnly, 1800 >> >>
    /\ m_result.text = TextDescOnly

\* piece is in txt, symbol for symbol
Occurs(txt, piece) ==
    \E i \in 1..(Len(txt) - Len(piece) + 1) : SubSeq(txt, i, i + Len(piece) - 1) = piece

\* where piece first is in txt (0: nowhere)
FirstAt(txt, piece) ==
    IF Occurs(txt, piece)
    THEN CHOOSE i \in 1..(Len(txt) - Len(piece) + 1) :
            /\ SubSeq(txt, i, i + Len(piece) - 1) = piece
            /\ \A j \in 1..(i - 1) : SubSeq(txt, j, j + Len(piece) - 1) # piece
    ELSE 0

\* the Transcription section of a merged document: from its header to the
\* header of the Additional Information section, or to the end
TranscriptionSection(doc) ==
    IF FirstAt(doc, MergedTransHeader) = 0 THEN << >>
    ELSE SubSeq(doc, FirstAt(doc, MergedTransHeader) + Len(MergedTransHeader),
                IF FirstAt(doc, MergedAddHeader) = 0 THEN Len(doc)
                ELSE FirstAt(doc, MergedAddHeader) - 1)

\* C8: in a merge of two or more results, the whole adjusted text (shifted,
\* then rescaled) of every result that has no transcription heading is,
\* symbol for symbol, in the Transcription section of the merged document.
C8_NoHeadingKeptWhole ==
    (m_result.done /\ Len(m_analyses) >= 2) =>
        \A k \in 1..Len(m_analyses) :
           ~HasTranscriptionHeading(m_analyses[k][1]) =>
              Occurs(TranscriptionSection(m_result.text),
                     Adjusted(m_analyses[k][1], m_analyses[k][2], m_speed))

\* a result with all three headings, then one with a description heading only
C8_Witness ==
    /\ m_result.done
    /\ m_speed = 3
    /\ m_analyses = << << TextFull, 0 >>, << TextDescOnly, 1800 >> >>
    /\ Occurs(TranscriptionSection(m_result.text),
              <<"hello", " ", "[", "4", "7", ":", "1", "5", "]">>)
    /\ Occurs(m_result.text, MergedAddHeader)

(***************************************************************************)
(* Properties of fix_timestamps and adjust_timestamps_with_offset          *)
(* (specification SpecText)                                                *)
(***************************************************************************)

\* one transform of a chain
Applied(txt, op) ==
    IF op.kind = "offset" THEN adjust_timestamps_with_offset(txt, op.arg)
    ELSE fix_timestamps(txt, op.arg)

\* the text after the first n transforms of the chain
RECURSIVE TextAfter(_)
TextAfter(n) == IF n = 0 THEN t_orig ELSE Applied(TextAfter(n - 1), t_applied[n])

\* the last transform was fix_timestamps with multiplier 1.0
LastIsUnitSpeed ==
    /\ Len(t_applied) >= 1
    /\ t_applied[Len(t_applied)] = [kind |-> "speed", arg |-> One]

\* the text that last transform was given
TextBefore == TextAfter(Len(t_applied) - 1)

\* C9 as the specification states it: fix_timestamps(text, 1.0) = text for
\* every text.
C9_UnitSpeedIdentity == LastIsUnitSpeed => t_text = TextBefore

\* a field written without a leading zero
Unpadded(field) == Len(field) = 1 \/ field[1] # "0"

\* a field of two digits below 60
TwoDigits(field) == Len(field) = 2 /\ ParseInt(field) < 60

\* M:SS with minutes below 60, or H:MM:SS with a non-zero hour
CanonicalTime(stamp) ==
    IF Len(Split(stamp, ":")) = 2
    THEN /\ Unpadded(Split(stamp, ":")[1])
         /\ ParseInt(Split(stamp, ":")[1]) < 60
         /\ TwoDigits(Split(stamp, ":")[2])
    ELSE /\ Len(Split(stamp, ":")) = 3
         /\ Unpadded(Split(stamp, ":")[1])
         /\ ParseInt(Split(stamp, ":")[1]) > 0
         /\ TwoDigits(Split(stamp, ":")[2])
         /\ TwoDigits(Split(stamp, ":")[3])

\* every match of the bracketed pattern holds a canonical time
BracketsCanonical(txt) == \A stamp \in BracketedStamps(txt) : CanonicalTime(stamp)

\* every match of the range pattern that a left-to-right scan from txt[i] on
\* finds has canonical endpoints and " - " between them
RECURSIVE RangesCanonical(_, _)
RangeCanonicalAt(txt, i, m) ==
    IF m.end = 0 THEN RangesCanonical(txt, i + 1)
    ELSE /\ CanonicalTime(SubSeq(txt, m.s1, m.e1 - 1))
         /\ CanonicalTime(SubSeq(txt, m.s2, m.e2 - 1))
         /\ SubSeq(txt, m.e1, m.s2 - 1) = <<" ", "-", " ">>
         /\ RangesCanonical(txt, m.end)

RangesCanonical(txt, i) ==
    IF i > Len(txt) THEN TRUE ELSE RangeCanonicalAt(txt, i, MatchRange(txt, i))

Canonical(txt) == BracketsCanonical(txt) /\ RangesCanonical(txt, 1)

\* C9, amended: fix_timestamps(text, 1.0) = text exactly for the texts whose
\* matched timestamps are all canonical; any other text comes back changed.
C9_UnitSpeedIdentityOnCanonical ==
    LastIsUnitSpeed => (t_text = TextBefore <=> Canonical(TextBefore))

\* a canonical text with a bracketed time and a range goes through unchanged,
\* after a text with a padded minute field was changed
C9_Witness ==
    /\ LastIsUnitSpeed
    /\ Len(t_applied) = 1
    /\ t_orig = BracketHours \o <<" ">> \o RangeBold
    /\ Canonical(t_orig)
    /\ t_text = t_orig

\* C10: two shifts by a and by b give what one shift by a + b gives.
C10_ShiftAdditive ==
    (/\ Len(t_applied) = 2
     /\ t_applied[1].kind = "offset"
     /\ t_applied[2].kind = "offset") =>
        t_text = adjust_timestamps_with_offset(t_orig, t_applied[1].arg + t_applied[2].arg)

\* every place where piece is in txt
Positions(txt, piece) ==
    { i \in 1..(Len(txt) - Len(piece) + 1) : SubSeq(txt, i, i + Len(piece) - 1) = piece }

\* the Description section of a merged document: from its header to the
\* header of the Transcription section
DescriptionSection(doc) ==
    IF FirstAt(doc, MergedDescHeader) = 0 THEN << >>
    ELSE SubSeq(doc, FirstAt(doc, MergedDescHeader) + Len(MergedDescHeader),
                IF FirstAt(doc, MergedTransHeader) = 0 THEN Len(doc)
                ELSE FirstAt(doc, MergedTransHeader) - 1)

\* the Additional Information section: from its header to the end
AdditionalSection(doc) ==
    IF FirstAt(doc, MergedAddHeader) = 0 THEN << >>
    ELSE SubSeq(doc, FirstAt(doc, MergedAddHeader) + Len(MergedAddHeader), Len(doc))

\* the part headers of the merged results, in the order of the results
PartHeaders ==
    [i \in 1..Len(m_analyses) |-> part_header(i - 1, m_analyses[i][2], m_speed)]

\* every header is in the section at most once, and a header of an earlier
\* result is before every header of a later one
HeadersInOrder(section, headers) ==
    /\ \A i \in 1..Len(headers) : Cardinality(Positions(section, headers[i])) <= 1
    /\ \A i, j \in 1..Len(headers) :
          i < j => \A p \in Positions(section, headers[i]),
                      q \in Positions(section, headers[j]) : p < q

\* the three merged headings are in the document at most once each, the
\* Transcription heading always, Description before it and Additional
\* Information after it
HeadingsInOrder(d, t, a) ==
    /\ Cardinality(d) <= 1 /\ Cardinality(t) = 1 /\ Cardinality(a) <= 1
    /\ \A p \in d, q \in t : p < q
    /\ \A p \in t, q \in a : p < q

\* C11: in a merged document of two or more results the merged headings come
\* in the order Description, Transcription, Additional Information, and in
\* each of the three sections the part headers come in the order of the
\* results (ascending offset for results given in ascending offset).
C11_SectionAndPartOrder ==
    (m_result.done /\ Len(m_analyses) >= 2) =>
        /\ HeadingsInOrder(Positions(m_result.text, MergedDescHeader),
                           Positions(m_result.text, MergedTransHeader),
                           Positions(m_result.text, MergedAddHeader))
        /\ HeadersInOrder(DescriptionSection(m_result.text), PartHeaders)
        /\ HeadersInOrder(TranscriptionSection(m_result.text), PartHeaders)
        /\ HeadersInOrder(AdditionalSection(m_result.text), PartHeaders)

\* a result with its sections in the order Additional, Transcription,
\* Description, then one in the usual order: the merged document has the
\* three headings, and both part headers are in each section
C11_Witness ==
    /\ m_result.done
    /\ m_analyses = << << TextSwapped, 0 >>, << TextFull, 1800 >> >>
    /\ FirstAt(m_result.text, MergedDescHeader) > 0
    /\ FirstAt(m_result.text, MergedAddHeader) > FirstAt(m_result.text, MergedTransHeader)
    /\ \A i \in 1..2 :
          /\ Occurs(DescriptionSection(m_result.text), PartHeaders[i])
          /\ Occurs(TranscriptionSection(m_result.text), PartHeaders[i])
          /\ Occurs(AdditionalSection(m_result.text), PartHeaders[i])

\* the requests of one kind made so far for segment seg (from 0): their
\* places in remote_log
Requests(call, seg) ==
    { k \in 1..Len(remote_log) : remote_log[k].call = call /\ remote_log[k].seg = seg }

\* no call of analyze_single_segment is between its upload and its end
NoSegmentCallOpen == pc \notin {"idle", "poll", "generate", "delete"}

\* C12: when a call of analyze_single_segment has ended, by return or by an
\* exception, a delete request was issued after every upload that succeeded.
C12_UploadAlwaysDeleted ==
    NoSegmentCallOpen =>
        \A k \in 1..Len(remote_log) :
            (remote_log[k].call = "upload" /\ remote_log[k].ok) =>
                \E d \in Requests("delete", remote_log[k].seg) : d > k

LogEntry(call, seg, ok) == [call |-> call, seg |-> seg, ok |-> ok]

\* the first request is the upload of segment 0; the upload of a later
\* segment comes directly after the pacing delay that follows the successful
\* end (the delete request) of the segment before it
UploadsPaced ==
    \A k \in 1..Len(remote_log) :
        remote_log[k].call = "upload" =>
            IF k = 1 THEN remote_log[k].seg = 0
            ELSE /\ k > 2
                 /\ remote_log[k].seg > 0
                 /\ remote_log[k - 1] = LogEntry("sleep", remote_log[k].seg - 1, TRUE)
                 /\ remote_log[k - 2] = LogEntry("delete", remote_log[k].seg - 1, TRUE)

\* a pacing delay only after a segment that is not the last one, directly
\* after its analysis has returned, and followed by nothing but the upload
\* of the next segment
DelaysBetweenSegments ==
    \A k \in 1..Len(remote_log) :
        remote_log[k].call = "sleep" =>
            /\ remote_log[k].seg < Len(segments) - 1
            /\ k > 1
            /\ remote_log[k - 1] = LogEntry("delete", remote_log[k].seg, TRUE)
            /\ k < Len(remote_log) =>
                   /\ remote_log[k + 1].call = "upload"
                   /\ remote_log[k + 1].seg = remote_log[k].seg + 1

\* C13: the segments are analysed one after the other in ascending index
\* order, each uploaded and analysed at most once (exactly once in a run that
\* gets to the merge); the upload of segment i+1 comes only after segment i
\* has returned and one pacing delay has passed; at most one uploaded file is
\* on the service at any time; no pacing delay follows the last segment.
C13_Serialized ==
    /\ remote_log # << >> => remote_log[1].call = "upload"
    /\ UploadsPaced
    /\ DelaysBetweenSegments
    /\ \A k, l \in 1..Len(remote_log) : k < l => remote_log[k].seg <= remote_log[l].seg
    /\ \A k \in 1..Len(remote_log) :
          /\ Cardinality(Requests("upload", remote_log[k].seg)) = 1
          /\ Cardinality(Requests("generate", remote_log[k].seg)) <= 1
          /\ Cardinality(Requests("sleep", remote_log[k].seg)) <= 1
    /\ Cardinality(remote_files) <= 1
    /\ pc = "merge" =>
          /\ Len(analyses) = Len(segments)
          /\ \A seg \in 0..(Len(segments) - 1) :
                /\ Cardinality(Requests("upload", seg)) = 1
                /\ Cardinality(Requests("generate", seg)) = 1
                /\ Cardinality(Requests("sleep", seg)) = (IF seg < Len(segments) - 1 THEN 1 ELSE 0)

\* three segments were analysed, with two pacing delays between them
C13_Witness ==
    /\ pc = "merge"
    /\ Len(segments) = 3
    /\ Cardinality({ k \in 1..Len(remote_log) : remote_log[k].call = "sleep" }) = 2
    /\ remote_log[Len(remote_log)] = LogEntry("delete", 2, TRUE)

\* what the state keeps of a failed phase: a remote request that raised, an
\* upload the service reports as failed, a chunk whose re-encoding failed, a
\* preprocessing chain with every candidate failed
FailureSeen ==
    \/ \E k \in 1..Len(remote_log) : ~remote_log[k].ok
    \/ file_state = "FAILED"
    \/ \E k \in 1..Len(extractions) : extractions[k].how = "encode" /\ ~extractions[k].ok
    \/ AllFailed

\* a result dictionary is pending or was returned
ResultReturned == outcome.kind = "return"

\* C14: analyze_video returns no result dictionary when a phase has failed.
\* A result is returned only when nothing failed and every segment was
\* analysed; every step that leaves the try block other than the return
\* statement after the merge does so with an exception and no result; and an
\* exception is never turned into a result afterwards.
C14_NoPartialResult ==
    /\ [](ResultReturned =>
            /\ ~FailureSeen
            /\ Len(segments) >= 1
            /\ Len(analyses) = Len(segments)
            /\ outcome.result.segments = Len(segments))
    /\ [][(pc' = "cleanup_segments" /\ pc # "merge") =>
            (outcome'.kind = "raise" /\ outcome'.result = << >>)]_vars
    /\ [][outcome.kind = "raise" => outcome'.kind = "raise"]_vars

\* the run has ended with the exception of the inference request for the third
\* segment, after two segments were analysed
C14_Witness ==
    /\ pc = "done"
    /\ Len(analyses) = 2
    /\ Len(segments) = 3
    /\ outcome = Raised("APIError", "generate_content", << >>)
    /\ remote_log[Len(remote_log)] = LogEntry("generate", 2, FALSE)

\* C15: a removal that fails in the finally block changes nothing of what
\* analyze_video returns or raises (the merged result of a run that succeeded,
\* the first error of a run that failed), and after the step for the segment
\* directory the step for the preprocessed file is still taken.
C15_CleanupNotEscalated ==
    [][(pc \in {"cleanup_segments", "cleanup_preprocessed"}) =>
          /\ outcome' = outcome
          /\ pc = "cleanup_segments" => pc' = "cleanup_preprocessed"]_vars

\* C16: after the caller has asked, while segment i was being analysed, for
\* the run to stop, no upload and no inference request is issued for a
\* segment after i.
C16_CancelBetweenSegments ==
    \A c \in 1..Len(cancel_requested), k \in 1..Len(remote_log) :
        remote_log[k].call \in {"upload", "generate"} =>
            remote_log[k].seg <= cancel_requested[c]

\* C17: when the delete request for segment i fails after its inference
\* request succeeded, the analysis text of segment i is still returned (it is
\* in analyses) and the run does not end with the error of the delete request.
C17_DeleteFailureNotFatal ==
    \A k \in 1..Len(remote_log) :
        (remote_log[k].call = "delete" /\ ~remote_log[k].ok) =>
            /\ Len(analyses) > remote_log[k].seg
            /\ outcome # Raised("APIError", "delete", << >>)

\* the inference requests made so far for segment seg
Inferences(seg) == Requests("generate", seg)

\* C18: analyze_single_segment asks for the status again exactly while the
\* status is PROCESSING (unless a status request itself raised); an inference request is issued only directly after a
\* status other than PROCESSING and FAILED was read (by the upload or by a
\* status request of the same segment); when the status is FAILED the call
\* raises "File processing failed" with no inference request for the segment;
\* in every other case exactly one inference request is issued for it.
C18_PollThenOneInference ==
    /\ pc = "poll" => file_state = "PROCESSING"
    /\ file_state = "PROCESSING" =>
          \/ pc = "poll"
          \/ remote_log[Len(remote_log)] = LogEntry("get", Len(analyses), FALSE)
    /\ pc \in {"generate", "delete"} => file_state \in FileStates \ {"PROCESSING", "FAILED"}
    /\ pc = "generate" => Inferences(Len(analyses)) = {}
    /\ pc = "delete" => Cardinality(Inferences(Len(analyses))) = 1
    /\ file_state = "FAILED" =>
          /\ Inferences(Len(analyses)) = {}
          /\ outcome.kind = "raise"
          /\ pc = "cleanup_segments" =>
                outcome = Raised("RuntimeError", "File processing failed", << >>)
    /\ \A k \in 1..Len(remote_log) :
          /\ remote_log[k].call = "generate" =>
                /\ k > 1
                /\ remote_log[k - 1].call \in {"upload", "get"}
                /\ remote_log[k - 1].ok
                /\ remote_log[k - 1].seg = remote_log[k].seg
                /\ Cardinality(Inferences(remote_log[k].seg)) = 1
          /\ remote_log[k].call = "get" =>
                /\ remote_log[k - 1].call \in {"upload", "get"}
                /\ remote_log[k - 1].ok
                /\ remote_log[k - 1].seg = remote_log[k].seg
    /\ \A seg \in 0..(Len(analyses) - 1) : Cardinality(Inferences(seg)) = 1

\* the status was PROCESSING after the upload and after the first status
\* request, ACTIVE after the second, and then one inference request was made
C18_Witness ==
    /\ pc = "delete"
    /\ file_state = "ACTIVE"
    /\ polls = 2
    /\ remote_log = << LogEntry("upload", 0, TRUE), LogEntry("get", 0, TRUE),
                       LogEntry("get", 0, TRUE), LogEntry("generate", 0, TRUE) >>

Extraction(chunk, how, ok) == [chunk |-> chunk, how |-> how, ok |-> ok]

\* the re-encoding of some chunk has failed
ReencodeHasFailed ==
    \E k \in 1..Len(extractions) : extractions[k].how = "encode" /\ ~extractions[k].ok

\* C19: when the stream copy and then the re-encoding of a chunk have failed,
\* split_video ends with the exception of the re-encoding run: no further
\* chunk is extracted, analyze_video gets no segment list (it never sets
\* temp_dir and never starts its loop), no segment is uploaded or analysed,
\* and the run ends in cleanup with that exception.
C19_SplitFailureAborts ==
    ReencodeHasFailed =>
        /\ Len(extractions) >= 2
        /\ extractions[Len(extractions)] = Extraction(Len(segments), "encode", FALSE)
        /\ extractions[Len(extractions) - 1] = Extraction(Len(segments), "copy", FALSE)
        /\ pc \in {"cleanup_segments", "cleanup_preprocessed", "done"}
        /\ outcome.kind = "raise"
        /\ pc = "cleanup_segments" => outcome = Raised("CalledProcessError", "ffmpeg", << >>)
        /\ temp_dir = NoPath
        /\ remote_log = << >>
        /\ analyses = << >>

\* the first chunk was extracted, the second failed both ways: the run has
\* ended with the exception, nothing was uploaded
C19_Witness ==
    /\ pc = "done"
    /\ extractions = << Extraction(0, "copy", TRUE), Extraction(1, "copy", FALSE),
                        Extraction(1, "encode", FALSE) >>
    /\ Len(segments) = 1
    /\ outcome = Raised("CalledProcessError", "ffmpeg", << >>)
    /\ remote_log = << >>

\* where segment i (from 1) begins in the file that was split, in seconds
SplitPosition(i) == (i - 1) * segment_duration

\* where it begins in the caller's video: the preprocessed file that was
\* split plays the caller's video at twice the speed
OriginalPosition(i) ==
    IF video_path = OutputPath THEN 2 * SplitPosition(i) ELSE SplitPosition(i)

\* the line of a part header: the part's number and a time
PartLine(i, seconds) ==
    <<"PART", " ">> \o Str(i) \o <<" ", "(", "from", " ">> \o format_time(seconds) \o <<")">>

\* C20, as stated: the offset of every segment is the position where the
\* segment begins in the original video, also when the preprocessed file was
\* split.
C20_OffsetInOriginalTimeline ==
    \A i \in 1..Len(segments) : segments[i][2] = OriginalPosition(i)

\* C20, amended: the offset of every segment is the position where it begins
\* in the file that was split (the preprocessed file when there is one), a
\* position inside that file; the merged document of a run with two or more
\* segments names each part with its offset times the speed multiplier of the
\* run, which for a preprocessed run is its position in the original video.
C20_OffsetInSplitTimeline ==
    /\ \A i \in 1..Len(segments) :
          /\ segments[i][2] = SplitPosition(i)
          /\ i > 1 => SplitPosition(i) * One < get_video_duration(video_path)
    /\ (ResultReturned /\ Len(segments) >= 2) =>
          \A i \in 1..Len(segments) :
              Occurs(outcome.result.analysis,
                     PartLine(i, (SplitPosition(i) * speed_multiplier) \div One))

\* a preprocessed run of two segments has returned: the second segment has
\* offset 2 in the preprocessed file, begins at 4 s of the original video,
\* and its part is named with 0:04
C20_Witness ==
    /\ pc = "done"
    /\ ResultReturned
    /\ video_path = OutputPath
    /\ Len(segments) = 2
    /\ segments[2][2] = 2
    /\ OriginalPosition(2) = 4
    /\ Occurs(outcome.result.analysis, PartLine(2, 4))

\* the analysis of a segment has failed: its upload, a status request or its
\* inference request raised, or the service reports the upload as failed
SegmentFailed ==
    \/ \E k \in 1..Len(remote_log) :
          ~remote_log[k].ok /\ remote_log[k].call \in {"upload", "get", "generate"}
    \/ file_state = "FAILED"

\* C21: when the analysis of segment i has failed, the failing request is the
\* last thing the run did remotely (no later upload, inference request or
\* pacing delay, nothing for a segment after i), nothing was merged, and the
\* run is in its cleanup or has ended, with an exception.
C21_AbortOnSegmentFailure ==
    SegmentFailed =>
        /\ pc \in {"cleanup_segments", "cleanup_preprocessed", "done"}
        /\ outcome.kind = "raise"
        /\ outcome.result = << >>
        /\ Len(analyses) < Len(segments)
        /\ \A k \in 1..Len(remote_log) :
              /\ remote_log[k].seg <= Len(analyses)
              /\ ~remote_log[k].ok => k = Len(remote_log)
        /\ remote_log[Len(remote_log)].seg = Len(analyses)
        /\ remote_log[Len(remote_log)].call \in {"upload", "get", "generate"}
        /\ file_state = "FAILED" => remote_log[Len(remote_log)].ok

\* the second of three segments was reported as failed after one status
\* request; the run has ended with one analysis collected
C21_Witness ==
    /\ pc = "done"
    /\ Len(segments) = 3
    /\ Len(analyses) = 1
    /\ file_state = "FAILED"
    /\ remote_log[Len(remote_log)] = LogEntry("get", 1, TRUE)
    /\ outcome = Raised("RuntimeError", "File processing failed", << >>)

\* the extraction runs of chunk c (from 0) that succeeded
Extracted(c) ==
    { k \in 1..Len(extractions) : extractions[k].chunk = c /\ extractions[k].ok }

\* C22: the first run for every chunk is a stream copy, started only when the
\* chunk before it was extracted; a re-encoding run comes only directly after
\* the failed stream copy of the same chunk; every chunk in the segment list
\* was appended once, with its path and start time, after exactly one of its
\* runs succeeded, and no later run was made for it.
C22_CopyThenReencode ==
    extractions # << >> =>
        /\ \A k \in 1..Len(extractions) :
              /\ extractions[k].how = "copy" =>
                    IF k = 1 THEN extractions[k].chunk = 0
                    ELSE /\ extractions[k - 1].ok
                         /\ extractions[k].chunk = extractions[k - 1].chunk + 1
              /\ extractions[k].how = "encode" =>
                    /\ k > 1
                    /\ extractions[k - 1] = Extraction(extractions[k].chunk, "copy", FALSE)
              /\ extractions[k].ok =>
                    /\ Extracted(extractions[k].chunk) = {k}
                    /\ extractions[k].chunk < Len(segments)
                    /\ \A l \in 1..Len(extractions) :
                          extractions[l].chunk = extractions[k].chunk => l <= k
        /\ \A c \in 0..(Len(segments) - 1) :
              /\ Cardinality(Extracted(c)) = 1
              /\ segments[c + 1] = << segment_path(SegmentsDir, c, video_path),
                                      c * segment_duration >>

\* the stream copy of the first chunk failed and its re-encoding succeeded;
\* the second chunk was extracted by stream copy
C22_Witness ==
    /\ pc = "upload"
    /\ Len(segments) = 2
    /\ extractions = << Extraction(0, "copy", FALSE), Extraction(0, "encode", TRUE),
                        Extraction(1, "copy", TRUE) >>

\* the run is past preprocessing: it splits, analyses or merges
PastPreprocessing ==
    pc \in {"split_probe", "split_copy", "split_reencode"} \cup AnalysisPcs

\* C23: the multiplier of a run changes at no step other than the return of
\* preprocess_video, where it becomes 2.0 whatever it was; so a run without
\* preprocessing keeps the value the caller supplied, and no run changes it
\* between segments.  Past preprocessing a preprocessed run has 2.0, and the
\* result of the return statement is the merge of all analyses with the
\* multiplier of the run.
C23_OneMultiplier ==
    /\ []((PastPreprocessing /\ preprocess) => speed_multiplier = 2 * One)
    /\ [](ResultReturned =>
            /\ preprocess => speed_multiplier = 2 * One
            /\ pc = "cleanup_segments" =>
                  outcome.result.analysis = merge_analyses(analyses, speed_multiplier))
    /\ [][speed_multiplier' # speed_multiplier =>
            (pc = "pre_attempt" /\ pc' = "split_probe" /\ preprocess
             /\ speed_multiplier' = 2 * One)]_vars
    /\ [][~preprocess => speed_multiplier' = speed_multiplier]_vars

\* a preprocessed run of one segment has returned: the [0:01] of the sped-up
\* file reads [0:02]
C23_Witness ==
    /\ pc = "done"
    /\ preprocess
    /\ Len(segments) = 1
    /\ speed_multiplier = 2 * One
    /\ ResultReturned
    /\ analyses[1][1] = <<"[", "0", ":", "0", "1", "]", " ", "hello">>
    /\ outcome.result.analysis = <<"[", "0", ":", "0", "2", "]", " ", "hello">>

\* the last transform of the chain
LastOp == t_applied[Len(t_applied)]

\* what a transform makes of a timestamp of t seconds, in whole seconds
NewValue(t, op) ==
    IF op.kind = "offset" THEN t + op.arg ELSE (t * op.arg) \div One

\* a number of seconds written as H:MM:SS from one hour on, as M:SS below
Clock(seconds) ==
    IF seconds >= 3600
    THEN Str(seconds \div 3600) \o <<":">> \o Pad02((seconds \div 60) % 60)
         \o <<":">> \o Pad02(seconds % 60)
    ELSE Str(seconds \div 60) \o <<":">> \o Pad02(seconds % 60)

\* a matched timestamp, rewritten
Rewritten(stamp, op) == Clock(NewValue(parse_time_to_seconds(stamp), op))

\* txt from place i on with every match of the bracketed pattern rewritten
RECURSIVE BracketsRewritten(_, _, _)
BracketsRewritten(txt, i, op) ==
    IF i > Len(txt) THEN << >>
    ELSE IF MatchBracketed(txt, i) = 0
         THEN << txt[i] >> \o BracketsRewritten(txt, i + 1, op)
         ELSE <<"[">> \o Rewritten(SubSeq(txt, i + 1, MatchBracketed(txt, i) - 2), op)
              \o <<"]">> \o BracketsRewritten(txt, MatchBracketed(txt, i), op)

\* txt from place i on with both timestamps of every match of the range
\* pattern rewritten, " - " between them and the bold marks kept
RECURSIVE RangesRewritten(_, _, _)
RangeRewrittenAt(txt, i, op, m) ==
    IF m.end = 0 THEN << txt[i] >> \o RangesRewritten(txt, i + 1, op)
    ELSE Stars(m.pre) \o Rewritten(SubSeq(txt, m.s1, m.e1 - 1), op)
         \o <<" ", "-", " ">> \o Rewritten(SubSeq(txt, m.s2, m.e2 - 1), op)
         \o Stars(m.suf) \o RangesRewritten(txt, m.end, op)

RangesRewritten(txt, i, op) ==
    IF i > Len(txt) THEN << >>
    ELSE RangeRewrittenAt(txt, i, op, MatchRange(txt, i))

\* C24: a transform returns its text with every matched timestamp (bracketed
\* first, then the ranges of what that gave) replaced by the formatting of
\* its new value, t + offset for a shift and t * multiplier (in whole
\* seconds) for a rescale, H:MM:SS from one hour on and M:SS below, and with
\* everything else as it was.
C24_RewriteToNewValue ==
    Len(t_applied) >= 1 =>
        t_text = RangesRewritten(BracketsRewritten(TextBefore, 1, LastOp), 1, LastOp)

\* [1:30] shifted by 90 reads [3:00], and that rescaled by 2.0 reads [6:00]
C24_Witness ==
    /\ t_orig = Bracket130
    /\ t_applied = << [kind |-> "offset", arg |-> 90], [kind |-> "speed", arg |-> 2 * One] >>
    /\ TextBefore = Bracket300
    /\ t_text = <<"[", "6", ":", "0", "0", "]">>

\* how every part header begins: the rule and the word PART
PartHeaderStart == <<"\n">> \o Rule \o <<"\n", "PART", " ">>

\* the one part that result i of the call gives to the Transcription
\* accumulator: its header, then the body under its transcription heading
\* when it has one, its whole adjusted text otherwise
TranscriptionPartOf(adjusted, i) ==
    PartHeaders[i] \o (IF trans_match(adjusted).found
                       THEN Strip(trans_match(adjusted).group)
                       ELSE adjusted)

TranscriptionPart(i) ==
    TranscriptionPartOf(Adjusted(m_analyses[i][1], m_analyses[i][2], m_speed), i)

\* C25: in a merge of n >= 2 results the Transcription section is in the
\* document, and it is made of exactly one part for every result, in order:
\* the part header n of the result followed by its transcription body or, when
\* it has no transcription heading, by its whole adjusted text.  So the
\* section has exactly n part headers, numbered 1..n.
C25_OnePartPerSegment ==
    (m_result.done /\ Len(m_analyses) >= 2) =>
        /\ Occurs(m_result.text, MergedTransHeader)
        /\ TranscriptionSection(m_result.text) =
              <<"\n">> \o Join([i \in 1..Len(m_analyses) |-> TranscriptionPart(i)], <<"\n">>)
              \o (IF Occurs(m_result.text, MergedAddHeader) THEN <<"\n">> ELSE << >>)
        /\ Cardinality(Positions(TranscriptionSection(m_result.text), PartHeaderStart))
              = Len(m_analyses)
        /\ \A i \in 1..Len(m_analyses) :
              Cardinality(Positions(TranscriptionSection(m_result.text), PartHeaders[i])) = 1

\* a result with a transcription heading and one without: two parts, the
\* first with the body only, the second with the whole text
C25_Witness ==
    /\ m_result.done
    /\ m_analyses = << << TextFull, 0 >>, << TextPlain, 1800 >> >>
    /\ m_speed = One
    /\ Cardinality(Positions(TranscriptionSection(m_result.text), PartHeaderStart)) = 2
    /\ Occurs(TranscriptionSection(m_result.text),
              PartHeaders[1] \o <<"[", "0", ":", "1", "0", "]", " ", "hello">>)
    /\ Occurs(TranscriptionSection(m_result.text),
              PartHeaders[2] \o <<"[", "3", "0", ":", "1", "0", "]", " ", "hello">>)

\* what a run creates: the preprocessed file, the segment directory and the
\* chunks in it
RunArtifacts == { path \in fs : path = OutputPath \/ Under(SegmentsDir, path) }

\* C26: in every run on a source video that exists, at every moment, the
\* source video and the directory that contains it exist, and a step removes
\* nothing but the preprocessed file, the segment directory and its chunks.
C26_SourceNeverDeleted ==
    /\ []((source_exists /\ pc # "idle") =>
            (SourcePath \in fs /\ dirname(SourcePath) \in fs))
    /\ [][(fs \ fs') \subseteq RunArtifacts]_vars

\* a preprocessed run of two segments has returned and removed what it
\* made, and the source video and its directory are there
C26_Witness ==
    /\ pc = "done"
    /\ ResultReturned
    /\ preprocess
    /\ Len(segments) = 2
    /\ temp_dir = SegmentsDir
    /\ preprocessed_path = OutputPath
    /\ fs = {TempDir, dirname(SourcePath), SourcePath}

(***************************************************************************)
(* Properties of two runs at the same time (specification SpecRuns)        *)
(***************************************************************************)

\* C27: no run writes over, reads or removes a preprocessed file that another
\* run wrote: whenever a run touches a file of the temporary directory, the
\* file is its own or, for a write, not there yet.
C27_NoInterference ==
    \A k \in 1..Len(r_log) :
        \/ r_log[k].held = r_log[k].run
        \/ r_log[k].op = "write" /\ r_log[k].held = 0

(***************************************************************************)
(* Termination of a run whose calls all return (specification SpecFair)    *)
(***************************************************************************)

\* the finally block of analyze_video has been entered
InFinally == pc \in {"cleanup_segments", "cleanup_preprocessed"}

\* the run raises at the existence check, before the try statement
RaisesBeforeTry == pc = "call" /\ ~source_exists

\* C28 (as stated): every run ends, returning or raising, and the finally
\* block has been executed before it does: the step that ends the run is the
\* last statement of the finally block.
C28_EndsAfterCleanup ==
    /\ <>(pc = "done")
    /\ [](pc = "done" => outcome.kind \in {"return", "raise"})
    /\ [][pc' = "done" => pc = "cleanup_preprocessed"]_vars

\* C28 (amended): every run ends, returning the merged analysis or raising.
\* A run that returns has gone through the whole finally block; a run that
\* raises has entered the finally block before, except the run whose source
\* video does not exist, which raises before the try statement.
C28_Terminates ==
    /\ <>(pc = "done")
    /\ [](pc = "done" => outcome.kind \in {"return", "raise"})
    /\ [][pc' = "done" => \/ InFinally
                          \/ RaisesBeforeTry /\ outcome'.error = "FileNotFoundError"]_vars
    /\ [][pc' = "done" /\ outcome'.kind = "return" =>
             pc = "cleanup_preprocessed" /\ outcome.kind = "return"
             /\ outcome'.result.analysis = merge_analyses(analyses, speed_multiplier)]_vars

\* a run of several segments, which had to poll, has returned with the
\* finally block behind it
C28_Witness ==
    /\ pc = "done"
    /\ Len(segments) > 1
    /\ source_exists
    /\ outcome.kind = "return"
    /\ polls > 0

(***************************************************************************)
(* Properties of TranslationHandler (specification SpecHandler)            *)
(***************************************************************************)

\* C29: at most one worker thread is alive at any time.
C29_OneWorkerAlive ==
    Cardinality({ w \in ThreadIds : Alive(w) }) <= 1

\* C30: a cancel request is not lost: while a worker for which
\* cancel_translation set the cancel event is alive, the event is set.
C30_CancelStaysSet ==
    \A w \in cancelling : Alive(w) => cancel_event

====
